---------------------------- MODULE Spec2Model ----------------------------
(***************************************************************************)
(* Model of the publisher-side core of hspaay/iotzone.golang:              *)
(*   - RegisteredNodes              (src/unnamed/part_000)                 *)
(*   - ReceiveNodeConfigure         (src/nodes/ReceiveNodeConfigure.go)    *)
(*   - InputFromSetCommands         (src/inputs/InputFromSetCommands.go)   *)
(*   - Publisher.handlePublisherDiscovery                                  *)
(*                                  (src/publisher/handlePublisherDiscovery.go) *)
(*                                                                         *)
(* Representation.  A Go string that is split or joined on "/" (an         *)
(* address) is the sequence of its segments, so strings.Split and          *)
(* strings.Join are the identity on it.  A Go map is a function whose      *)
(* DOMAIN is the set of keys present; a nil *Node stored under a key is    *)
(* the value Nil, which is different from the key being absent.  A string  *)
(* that is compared with < or > (a timestamp) is the sequence of its       *)
(* characters and is compared as Go compares strings, lexicographically.   *)
(* Node.Timestamp (the wall clock) is not modelled.                        *)
(***************************************************************************)
EXTENDS Naturals, Sequences, FiniteSets, TLC

VARIABLES
    deviceMap,            \* RegisteredNodes.deviceMap   : hwID   -> Node
    nodeMap,              \* RegisteredNodes.nodeMap     : nodeID -> Node or Nil
    updatedNodes,         \* RegisteredNodes.updatedNodes: NilNodes, or key -> Node or Nil
    configHeap,           \* the Config maps nodes point to: cfgRef -> (attr -> ConfigAttr)
    nodeConfigureHandler, \* ReceiveNodeConfigure.nodeConfigureHandler
    senderTimestamp,      \* InputFromSetCommands.senderTimestamp : sender -> timestamp
    subscriptions,        \* InputFromSetCommands.subscriptions   : set of set-addresses
    registeredInputs,     \* RegisteredInputs: the input addresses that have a handler
    busSubscriptions,     \* the transport's subscriptions: topic -> number of subscriptions
    thread,               \* per delivery thread: its position in decodeSetCommand and its locals
    domainPublishers,     \* the publisher directory: identity address -> identity message
    signMessages,         \* Publisher.signMessages, the deployment's signing policy
    everDSSVerified,      \* history: some call has been decided in the DSS-verified mode
    last                  \* history: the last call made, its inputs and what it returned

vars == << deviceMap, nodeMap, updatedNodes, configHeap, nodeConfigureHandler,
           senderTimestamp, subscriptions, registeredInputs, busSubscriptions,
           thread, domainPublishers, signMessages, everDSSVerified, last >>

nodeVars == << deviceMap, nodeMap, updatedNodes, configHeap, nodeConfigureHandler >>
setVars  == << senderTimestamp, subscriptions, registeredInputs, busSubscriptions,
               thread >>
pubVars  == << domainPublishers, signMessages, everDSSVerified >>

-----------------------------------------------------------------------------
(* Go maps *)

EmptyMap == [k \in {} |-> ""]

\* m[k] = v
Put(m, k, v) == [x \in (DOMAIN m) \cup {k} |-> IF x = k THEN v ELSE m[x]]

\* m[k] of a map of strings: the zero value "" when the key is absent
GetStr(m, k) == IF k \in DOMAIN m THEN m[k] ELSE ""

\* every map over a subset of keys
Maps(keys, values) == UNION { [d -> values] : d \in SUBSET keys }

-----------------------------------------------------------------------------
(* Names of the types package and of the publisher's construction *)

Domain      == "dom"
PublisherID == "pub"

MessageTypeConfigure      == "$configure"
MessageTypeNodeDiscovery  == "$node"
MessageTypeInputDiscovery == "$input"
MessageTypeSet            == "$set"
MessageTypeIdentity       == "$identity"
DSSPublisherID            == "$dss"

NodeAttrType           == "type"
NodeAttrName           == "name"
NodeAttrPublishEvent   == "publishEvent"
NodeAttrPublishHistory == "publishHistory"
NodeAttrPublishLatest  == "publishLatest"
NodeAttrPublishRaw     == "publishRaw"

NodeStatusLastError == "lastError"
NodeStatusRunState  == "runState"

-----------------------------------------------------------------------------
(* Inputs the registry operations are called with *)

HWIDs     == {"hw1", "hw2"}
NodeTypes == {"sensor"}
\* the IDs SetNodeID is called with: "" restores the hwID
NewNodeIDs == {"", "alias"}
\* attribute names of a configure command: one that NewNode gives a Config
\* entry, one that has none
ParamKeys   == {NodeAttrName, "unknown"}
\* the values a configure command carries
NumParamValues == 2
ValueNames     == << "a", "b", "c", "d" >>
ParamValues    == { ValueNames[i] : i \in 1..NumParamValues }

-----------------------------------------------------------------------------
(* RegisteredNodes *)

\* a nil *types.NodeDiscoveryMessage
Nil == [hwID |-> "", nodeID |-> "", address |-> << >>, attr |-> EmptyMap,
        status |-> EmptyMap, cfgRef |-> ""]

\* a nil map of strings (a message without attr, a handler's nil result)
NilMap == [nilMap |-> "nil"]

\* a nil map of nodes (updatedNodes after GetUpdatedNodes(true)); no node has
\* the empty address, so no map of nodes equals it
NilNodes == [k \in {<< >>} |-> Nil]

MakeNodeAddress(domain, publisherID, nodeID, messageType) ==
    IF messageType # "" THEN << domain, publisherID, nodeID, messageType >>
                        ELSE << domain, publisherID, nodeID >>

MakeNodeDiscoveryAddress(domain, publisherID, nodeID) ==
    MakeNodeAddress(domain, publisherID, nodeID, MessageTypeNodeDiscovery)

MakeNodeConfigureAddress(domain, publisherID, nodeID) ==
    MakeNodeAddress(domain, publisherID, nodeID, MessageTypeConfigure)

NewNodeConfig(dataType, description, defaultValue) ==
    [dataType |-> dataType, description |-> description, default |-> defaultValue]

\* the Config map NewNode makes
NewNodeConfigMap ==
    [k \in {NodeAttrName, NodeAttrPublishEvent, NodeAttrPublishHistory,
            NodeAttrPublishLatest, NodeAttrPublishRaw} |->
        CASE k = NodeAttrName           -> NewNodeConfig("string", "Human friendly node name", "")
          [] k = NodeAttrPublishEvent   -> NewNodeConfig("string", "Enable publishing outputs as event", "false")
          [] k = NodeAttrPublishHistory -> NewNodeConfig("bool", "Enable publishing output history", "true")
          [] k = NodeAttrPublishLatest  -> NewNodeConfig("bool", "Enable publishing latest output", "true")
          [] OTHER                      -> NewNodeConfig("bool", "Enable publishing raw outputs", "true")]

\* NewNode: nil on an empty argument.  The node's Config map is a new map,
\* allocated under the reference cfgRef.
NewNode(domain, publisherID, nodeHWID, nodeType, cfgRef) ==
    IF domain = "" \/ publisherID = "" \/ nodeHWID = "" \/ nodeType = ""
    THEN Nil
    ELSE [hwID    |-> nodeHWID,
          nodeID  |-> nodeHWID,
          address |-> MakeNodeAddress(domain, publisherID, nodeHWID, MessageTypeNodeDiscovery),
          attr    |-> Put(EmptyMap, NodeAttrType, nodeType),
          status  |-> EmptyMap,
          cfgRef  |-> cfgRef]

\* Clone: new Attr and Status maps with the same content, the SAME Config map
Clone(node) ==
    [hwID |-> node.hwID, nodeID |-> node.nodeID, address |-> node.address,
     attr |-> node.attr, status |-> node.status, cfgRef |-> node.cfgRef]

\* the registry as one value: what updateNode and its callers transform
Registry == [deviceMap |-> deviceMap, nodeMap |-> nodeMap, updatedNodes |-> updatedNodes]

\* m[k] of a map of node pointers: nil when the key is absent
GetNode(m, k) == IF k \in DOMAIN m THEN m[k] ELSE Nil

GetNodeByHWID(reg, nodeHWID) == GetNode(reg.deviceMap, nodeHWID)

GetNodeByNodeID(reg, nodeID) == GetNode(reg.nodeMap, nodeID)

GetNodeByAddress(reg, address) ==
    IF Len(address) < 3 THEN Nil ELSE GetNode(reg.nodeMap, address[3])

\* updateNode: replace the node in both indexes and mark it updated
updateNode(reg, node) ==
    IF node = Nil THEN reg
    ELSE [deviceMap    |-> Put(reg.deviceMap, node.hwID, node),
          nodeMap      |-> Put(reg.nodeMap, node.nodeID, node),
          updatedNodes |-> Put(IF reg.updatedNodes = NilNodes THEN EmptyMap
                                                            ELSE reg.updatedNodes,
                               node.address, node)]

SetRegistry(reg) ==
    /\ deviceMap'    = reg.deviceMap
    /\ nodeMap'      = reg.nodeMap
    /\ updatedNodes' = reg.updatedNodes


\* CreateNode without the look for a registered node
CreateNodeInAnew(reg, hwID, nodeType) ==
    LET newNode == NewNode(Domain, PublisherID, hwID, nodeType, hwID)
    IN  [reg |-> updateNode(reg, newNode), node |-> newNode, created |-> newNode # Nil]

\* CreateNode: the registered node when there is one, else a new node,
\* registered and marked updated
CreateNodeIn(reg, hwID, nodeType) ==
    LET existingNode == GetNodeByHWID(reg, hwID)
        newNode      == NewNode(Domain, PublisherID, hwID, nodeType, hwID)
    IN  IF existingNode # Nil
        THEN [reg |-> reg, node |-> existingNode, created |-> FALSE]
        ELSE [reg |-> updateNode(reg, newNode), node |-> newNode, created |-> newNode # Nil]

\* SetNodeID without the retiring of the old nodeID
SetNodeIDInKeepOld(reg, node, newNodeID) ==
    IF node = Nil THEN [reg |-> reg, ok |-> FALSE]
    ELSE
    LET existingNode == GetNodeByNodeID(reg, newNodeID)
        id           == IF newNodeID = "" THEN node.hwID ELSE newNodeID
        newNode      == [Clone(node) EXCEPT
                            !.nodeID  = id,
                            !.address = MakeNodeDiscoveryAddress(Domain, PublisherID, id)]
    IN  IF newNodeID # "" /\ existingNode # Nil /\ newNodeID # node.hwID
        THEN [reg |-> reg, ok |-> FALSE]
        ELSE [reg |-> updateNode(reg, newNode), ok |-> TRUE]

\* SetNodeID: FALSE for a nil node or an ID another entry of nodeMap holds
\* (unless it is the node's own hwID); else the old nodeID is nulled in
\* nodeMap and in the updated set and the renamed clone is registered
SetNodeIDIn(reg, node, newNodeID) ==
    IF node = Nil THEN [reg |-> reg, ok |-> FALSE]
    ELSE
    LET existingNode == GetNodeByNodeID(reg, newNodeID)
        id           == IF newNodeID = "" THEN node.hwID ELSE newNodeID
        newNode      == [Clone(node) EXCEPT
                            !.nodeID  = id,
                            !.address = MakeNodeDiscoveryAddress(Domain, PublisherID, id)]
        retired      == [deviceMap    |-> reg.deviceMap,
                         nodeMap      |-> Put(reg.nodeMap, node.nodeID, Nil),
                         updatedNodes |-> Put(IF reg.updatedNodes = NilNodes THEN EmptyMap
                                                                           ELSE reg.updatedNodes,
                                              << node.nodeID >>, Nil)]
    IN  IF newNodeID # "" /\ existingNode # Nil /\ newNodeID # node.hwID
        THEN [reg |-> reg, ok |-> FALSE]
        ELSE [reg |-> updateNode(retired, newNode), ok |-> TRUE]

\* UpdateNodeConfigValues without the look for the Config entry of a key
UpdateNodeConfigValuesInAnyKey(reg, heap, nodeHWID, params) ==
    LET node == GetNodeByHWID(reg, nodeHWID) IN
    IF node = Nil \/ params = NilMap THEN [reg |-> reg, changed |-> FALSE]
    ELSE
    LET setKeys == { key \in DOMAIN params :
                        key \notin DOMAIN node.attr \/ node.attr[key] # params[key] }
        newNode == [Clone(node) EXCEPT
                       !.attr = [key \in (DOMAIN node.attr) \cup setKeys |->
                                    IF key \in setKeys THEN params[key] ELSE node.attr[key]]]
        changed == setKeys # {}
    IN  [reg |-> IF changed THEN updateNode(reg, newNode) ELSE reg, changed |-> changed]

\* UpdateNodeConfigValues: the values of params whose key has a Config entry
\* are set in a clone's Attr; the clone is registered only if one differs
UpdateNodeConfigValuesIn(reg, heap, nodeHWID, params) ==
    LET node == GetNodeByHWID(reg, nodeHWID) IN
    IF node = Nil \/ params = NilMap THEN [reg |-> reg, changed |-> FALSE]
    ELSE
    LET config  == heap[node.cfgRef]
        setKeys == { key \in DOMAIN params :
                        /\ key \in DOMAIN config
                        /\ (key \notin DOMAIN node.attr \/ node.attr[key] # params[key]) }
        newNode == [Clone(node) EXCEPT
                       !.attr = [key \in (DOMAIN node.attr) \cup setKeys |->
                                    IF key \in setKeys THEN params[key] ELSE node.attr[key]]]
        changed == setKeys # {}
    IN  [reg |-> IF changed THEN updateNode(reg, newNode) ELSE reg, changed |-> changed]

\* GetUpdatedNodes: the nodes of the updated set; the set becomes nil when cleared
GetUpdatedNodesList(reg) ==
    IF reg.updatedNodes = NilNodes THEN {}
    ELSE { reg.updatedNodes[k] : k \in DOMAIN reg.updatedNodes }

\* Clone, lines 41-51: the maps of the clone that are the very maps of the
\* original.  Attr and Status are made anew and filled; Config is assigned.
SharedWithCloneAll == {"attr", "status", "config"}

SharedWithClone == {"config"}

\* What the node a caller referenced before a call holds after it, r being
\* the call's result: a write to a map of the clone shows in the original
\* when the clone shares the map.
HeldAfter(node, r) ==
    IF node = Nil THEN Nil
    ELSE LET newNode == r.reg.deviceMap[node.hwID] IN
         [node EXCEPT !.attr   = IF "attr" \in SharedWithClone THEN newNode.attr ELSE @,
                      !.status = IF "status" \in SharedWithClone THEN newNode.status ELSE @]

\* every key passed counts as a change
ChangedKeysAll(current, params) == DOMAIN params

\* the keys of params whose value differs from the current one; the current
\* value of an absent key is ""
ChangedKeys(current, params) ==
    { key \in DOMAIN params : GetStr(current, key) # params[key] }

\* m with the values of params for the keys given
Merged(m, params, keys) ==
    [key \in (DOMAIN m) \cup keys |-> IF key \in keys THEN params[key] ELSE m[key]]

\* UpdateNodeAttr with the result taken from the parameters when there is
\* no node
UpdateNodeAttrInUnknown(reg, nodeHWID, attrParams) ==
    LET node == GetNodeByHWID(reg, nodeHWID) IN
    IF node = Nil THEN [reg |-> reg, changed |-> attrParams # EmptyMap]
    ELSE
    LET keys    == ChangedKeys(node.attr, attrParams)
        newNode == [Clone(node) EXCEPT !.attr = Merged(node.attr, attrParams, keys)]
        changed == keys # {}
    IN  [reg |-> IF changed THEN updateNode(reg, newNode) ELSE reg, changed |-> changed]

\* UpdateNodeAttr
UpdateNodeAttrIn(reg, nodeHWID, attrParams) ==
    LET node == GetNodeByHWID(reg, nodeHWID) IN
    IF node = Nil THEN [reg |-> reg, changed |-> FALSE]
    ELSE
    LET keys    == ChangedKeys(node.attr, attrParams)
        newNode == [Clone(node) EXCEPT !.attr = Merged(node.attr, attrParams, keys)]
        changed == keys # {}
    IN  [reg |-> IF changed THEN updateNode(reg, newNode) ELSE reg, changed |-> changed]

\* UpdateNodeStatus
UpdateNodeStatusIn(reg, nodeHWID, statusAttr) ==
    LET node == GetNodeByHWID(reg, nodeHWID) IN
    IF node = Nil THEN [reg |-> reg, changed |-> FALSE]
    ELSE
    LET keys    == ChangedKeys(node.status, statusAttr)
        newNode == [Clone(node) EXCEPT !.status = Merged(node.status, statusAttr, keys)]
        changed == keys # {}
    IN  [reg |-> IF changed THEN updateNode(reg, newNode) ELSE reg, changed |-> changed]

\* UpdateErrorStatus
UpdateErrorStatusIn(reg, nodeHWID, runState, errorMsg) ==
    LET node == GetNodeByHWID(reg, nodeHWID) IN
    IF node = Nil THEN [reg |-> reg, changed |-> FALSE]
    ELSE
    LET status  == [key \in {NodeStatusLastError, NodeStatusRunState} |->
                       IF key = NodeStatusLastError THEN errorMsg ELSE runState]
        keys    == { key \in DOMAIN status : GetStr(node.status, key) # status[key] }
        newNode == [Clone(node) EXCEPT !.status = Merged(node.status, status, keys)]
        changed == keys # {}
    IN  [reg |-> IF changed THEN updateNode(reg, newNode) ELSE reg, changed |-> changed]

\* a nil *types.ConfigAttr
NilConfig == [dataType |-> "", description |-> "", default |-> "nil"]

\* UpdateNodeConfig: the descriptor is written into the Config map of the
\* clone, which is the Config map of the node
UpdateNodeConfigIn(reg, heap, nodeHWID, attrName, configAttr) ==
    LET node == GetNodeByHWID(reg, nodeHWID) IN
    IF node = Nil \/ configAttr = NilConfig \/ attrName = ""
    THEN [reg |-> reg, heap |-> heap]
    ELSE LET newNode == Clone(node) IN
         [reg  |-> updateNode(reg, newNode),
          heap |-> Put(heap, newNode.cfgRef, Put(heap[newNode.cfgRef], attrName, configAttr))]

\* CreateNodeConfig: nil for an unregistered hwID; else the descriptor, new
\* or with its three fields replaced, is written into the Config map of the
\* clone
CreateNodeConfigIn(reg, heap, hwID, attrName, dataType, description, defaultValue) ==
    LET node   == GetNodeByHWID(reg, hwID)
        config == [dataType |-> dataType, description |-> description,
                   default |-> defaultValue]
    IN  IF node = Nil
        THEN [reg |-> reg, heap |-> heap, config |-> NilConfig]
        ELSE LET newNode == Clone(node) IN
             [reg    |-> updateNode(reg, newNode),
              heap   |-> Put(heap, newNode.cfgRef, Put(heap[newNode.cfgRef], attrName, config)),
              config |-> config]

\* The characters of the value strings the model passes and stores.  A value
\* is kept as a string; strconv reads it character by character.
Spelling(str) ==
    CASE str = ""      -> << >>
      [] str = "10"    -> << "1", "0" >>
      [] str = "42"    -> << "4", "2" >>
      [] str = "abc"   -> << "a", "b", "c" >>
      [] str = "true"  -> << "t", "r", "u", "e" >>
      [] str = "false" -> << "f", "a", "l", "s", "e" >>
      [] OTHER         -> << "?" >>

DecimalDigits == << "0", "1", "2", "3", "4", "5", "6", "7", "8", "9" >>

IsDigit(char) == \E i \in DOMAIN DecimalDigits : DecimalDigits[i] = char

DigitValue(char) == (CHOOSE i \in DOMAIN DecimalDigits : DecimalDigits[i] = char) - 1

RECURSIVE DecimalValue(_)
DecimalValue(chars) ==
    IF chars = << >> THEN 0
    ELSE DecimalValue(SubSeq(chars, 1, Len(chars) - 1)) * Len(DecimalDigits)
         + DigitValue(chars[Len(chars)])

\* strconv.Atoi on the value strings of the model, which carry no sign: the
\* decimal value of a non-empty string of digits, an error for any other
Atoi(str) ==
    LET chars == Spelling(str) IN
    IF chars # << >> /\ \A i \in DOMAIN chars : IsDigit(chars[i])
    THEN [ok |-> TRUE, value |-> DecimalValue(chars)]
    ELSE [ok |-> FALSE, value |-> 0]

\* strconv.ParseBool
ParseBool(str) ==
    IF str \in {"1", "t", "T", "TRUE", "true", "True"} THEN [ok |-> TRUE, value |-> TRUE]
    ELSE IF str \in {"0", "f", "F", "FALSE", "false", "False"} THEN [ok |-> TRUE, value |-> FALSE]
    ELSE [ok |-> FALSE, value |-> FALSE]

\* strconv.ParseFloat on the value strings of the model, none of which has
\* a fraction or an exponent: the value of a string of digits, as a float
ParseFloat(str) == Atoi(str)

\* GetNodeConfigString with "" in place of the caller's default
GetNodeConfigStringInZero(reg, heap, nodeHWID, attrName, defaultValue) ==
    LET node == GetNode(reg.deviceMap, nodeHWID) IN
    IF node = Nil THEN [value |-> "", err |-> "device not found"]
    ELSE IF attrName \notin DOMAIN heap[node.cfgRef]
    THEN [value |-> "", err |-> "configuration does not exist"]
    ELSE LET stored    == GetStr(node.attr, attrName)
             attrValue == IF stored = "" THEN heap[node.cfgRef][attrName].default ELSE stored
         IN  [value |-> attrValue, err |-> ""]

\* GetNodeConfigString with the configuration default looked at first
GetNodeConfigStringInDefaultFirst(reg, heap, nodeHWID, attrName, defaultValue) ==
    LET node == GetNode(reg.deviceMap, nodeHWID) IN
    IF node = Nil THEN [value |-> defaultValue, err |-> "device not found"]
    ELSE IF attrName \notin DOMAIN heap[node.cfgRef]
    THEN [value |-> defaultValue, err |-> "configuration does not exist"]
    ELSE LET config    == heap[node.cfgRef][attrName]
             attrValue == IF config.default = "" THEN GetStr(node.attr, attrName)
                                                 ELSE config.default
         IN  [value |-> IF attrValue = "" THEN defaultValue ELSE attrValue, err |-> ""]

\* GetNodeConfigString: an error and the caller's default for an unknown
\* device or configuration; else the attribute value, the configuration
\* default when that is absent or empty, the caller's default when that is
\* empty too
GetNodeConfigStringIn(reg, heap, nodeHWID, attrName, defaultValue) ==
    LET node == GetNode(reg.deviceMap, nodeHWID) IN
    IF node = Nil THEN [value |-> defaultValue, err |-> "device not found"]
    ELSE IF attrName \notin DOMAIN heap[node.cfgRef]
    THEN [value |-> defaultValue, err |-> "configuration does not exist"]
    ELSE LET config    == heap[node.cfgRef][attrName]
             attrValue == IF attrName \notin DOMAIN node.attr \/ node.attr[attrName] = ""
                          THEN config.default
                          ELSE node.attr[attrName]
         IN  [value |-> IF attrValue = "" THEN defaultValue ELSE attrValue, err |-> ""]

\* GetNodeConfigBool, GetNodeConfigInt and GetNodeConfigFloat: the string
\* GetNodeConfigString gives with the default "", parsed; the caller's
\* default on its error, on an empty string and on a parse error
GetNodeConfigParsedIn(reg, heap, nodeHWID, attrName, defaultValue, parsed, notA) ==
    LET got == GetNodeConfigStringIn(reg, heap, nodeHWID, attrName, "") IN
    IF got.err # "" THEN [value |-> defaultValue, err |-> got.err]
    ELSE IF got.value = "" THEN [value |-> defaultValue, err |-> ""]
    ELSE IF ~parsed.ok THEN [value |-> defaultValue, err |-> notA]
    ELSE [value |-> parsed.value, err |-> ""]

GetNodeConfigBoolIn(reg, heap, nodeHWID, attrName, defaultValue) ==
    GetNodeConfigParsedIn(reg, heap, nodeHWID, attrName, defaultValue,
        ParseBool(GetNodeConfigStringIn(reg, heap, nodeHWID, attrName, "").value),
        "not a boolean")

GetNodeConfigIntIn(reg, heap, nodeHWID, attrName, defaultValue) ==
    GetNodeConfigParsedIn(reg, heap, nodeHWID, attrName, defaultValue,
        Atoi(GetNodeConfigStringIn(reg, heap, nodeHWID, attrName, "").value),
        "not an integer")

GetNodeConfigFloatIn(reg, heap, nodeHWID, attrName, defaultValue) ==
    GetNodeConfigParsedIn(reg, heap, nodeHWID, attrName, defaultValue,
        ParseFloat(GetNodeConfigStringIn(reg, heap, nodeHWID, attrName, "").value),
        "not a float")

-----------------------------------------------------------------------------
(* Registry operations as steps *)

CreateNode(hwID, nodeType) ==
    LET r == CreateNodeIn(Registry, hwID, nodeType) IN
    /\ SetRegistry(r.reg)
    /\ configHeap' = IF r.created THEN Put(configHeap, hwID, NewNodeConfigMap) ELSE configHeap
    /\ last' = [op |-> "CreateNode", created |-> r.created]
    /\ UNCHANGED << nodeConfigureHandler, setVars, pubVars >>

SetNodeID(node, newNodeID) ==
    LET r == SetNodeIDIn(Registry, node, newNodeID) IN
    /\ SetRegistry(r.reg)
    /\ last' = [op |-> "SetNodeID", ok |-> r.ok]
    /\ UNCHANGED << configHeap, nodeConfigureHandler, setVars, pubVars >>

GetUpdatedNodes(clearUpdates) ==
    /\ updatedNodes' = IF updatedNodes # NilNodes /\ clearUpdates THEN NilNodes ELSE updatedNodes
    /\ last' = [op |-> "GetUpdatedNodes", clearUpdates |-> clearUpdates]
    /\ UNCHANGED << deviceMap, nodeMap, configHeap, nodeConfigureHandler, setVars, pubVars >>

\* the record of an Update call: its arguments, what it returned, and what
\* the node registered before the call holds after it
UpdateCall(op, nodeHWID, args, r) ==
    [op |-> op, hwID |-> nodeHWID, args |-> args, changed |-> r.changed,
     held |-> HeldAfter(GetNodeByHWID(Registry, nodeHWID), r)]

UpdateNodeAttr(nodeHWID, attrParams) ==
    LET r == UpdateNodeAttrIn(Registry, nodeHWID, attrParams) IN
    /\ SetRegistry(r.reg)
    /\ last' = UpdateCall("UpdateNodeAttr", nodeHWID, attrParams, r)
    /\ UNCHANGED << configHeap, nodeConfigureHandler, setVars, pubVars >>

UpdateNodeStatus(nodeHWID, statusAttr) ==
    LET r == UpdateNodeStatusIn(Registry, nodeHWID, statusAttr) IN
    /\ SetRegistry(r.reg)
    /\ last' = UpdateCall("UpdateNodeStatus", nodeHWID, statusAttr, r)
    /\ UNCHANGED << configHeap, nodeConfigureHandler, setVars, pubVars >>

UpdateErrorStatus(nodeHWID, runState, errorMsg) ==
    LET r == UpdateErrorStatusIn(Registry, nodeHWID, runState, errorMsg) IN
    /\ SetRegistry(r.reg)
    /\ last' = UpdateCall("UpdateErrorStatus", nodeHWID, << runState, errorMsg >>, r)
    /\ UNCHANGED << configHeap, nodeConfigureHandler, setVars, pubVars >>

UpdateNodeConfigValues(nodeHWID, params) ==
    LET r == UpdateNodeConfigValuesIn(Registry, configHeap, nodeHWID, params) IN
    /\ SetRegistry(r.reg)
    /\ last' = UpdateCall("UpdateNodeConfigValues", nodeHWID, params, r)
    /\ UNCHANGED << configHeap, nodeConfigureHandler, setVars, pubVars >>

UpdateNodeConfig(nodeHWID, attrName, configAttr) ==
    LET r == UpdateNodeConfigIn(Registry, configHeap, nodeHWID, attrName, configAttr) IN
    /\ SetRegistry(r.reg)
    /\ configHeap' = r.heap
    /\ last' = [op |-> "UpdateNodeConfig", hwID |-> nodeHWID, attrName |-> attrName,
                configAttr |-> configAttr]
    /\ UNCHANGED << nodeConfigureHandler, setVars, pubVars >>

CreateNodeConfig(hwID, attrName, dataType, description, defaultValue) ==
    LET r == CreateNodeConfigIn(Registry, configHeap, hwID, attrName, dataType,
                                description, defaultValue) IN
    /\ SetRegistry(r.reg)
    /\ configHeap' = r.heap
    /\ last' = [op |-> "CreateNodeConfig", hwID |-> hwID, attrName |-> attrName,
                configAttr |-> r.config]
    /\ UNCHANGED << nodeConfigureHandler, setVars, pubVars >>

\* a call of GetNodeByAddress: it changes nothing
GetNodeByAddressCall(address) ==
    /\ last' = [op |-> "GetNodeByAddress", address |-> address,
                node |-> GetNodeByAddress(Registry, address)]
    /\ UNCHANGED << nodeVars, setVars, pubVars >>

\* the four GetNodeConfig calls change nothing; the record holds what was
\* asked and what came back
GetCall(op, nodeHWID, attrName, defaultValue, r) ==
    /\ last' = [op |-> op, hwID |-> nodeHWID, attrName |-> attrName,
                default |-> defaultValue, value |-> r.value, err |-> r.err]
    /\ UNCHANGED << nodeVars, setVars, pubVars >>

GetNodeConfigString(nodeHWID, attrName, defaultValue) ==
    GetCall("GetNodeConfigString", nodeHWID, attrName, defaultValue,
            GetNodeConfigStringIn(Registry, configHeap, nodeHWID, attrName, defaultValue))

GetNodeConfigBool(nodeHWID, attrName, defaultValue) ==
    GetCall("GetNodeConfigBool", nodeHWID, attrName, defaultValue,
            GetNodeConfigBoolIn(Registry, configHeap, nodeHWID, attrName, defaultValue))

GetNodeConfigInt(nodeHWID, attrName, defaultValue) ==
    GetCall("GetNodeConfigInt", nodeHWID, attrName, defaultValue,
            GetNodeConfigIntIn(Registry, configHeap, nodeHWID, attrName, defaultValue))

GetNodeConfigFloat(nodeHWID, attrName, defaultValue) ==
    GetCall("GetNodeConfigFloat", nodeHWID, attrName, defaultValue,
            GetNodeConfigFloatIn(Registry, configHeap, nodeHWID, attrName, defaultValue))

-----------------------------------------------------------------------------
(* ReceiveNodeConfigure *)

\* A message as the bus delivers it.  What MessageSigner.DecodeMessage finds
\* is part of the message: whether it is signed, whether it is encrypted,
\* whether it decodes, and the Attr of the NodeConfigureMessage it decodes to
\* (a nil map when the payload has no attr).
EmptyMessage == [signed |-> FALSE, encrypted |-> FALSE, decodeErr |-> TRUE,
                 empty |-> TRUE, attr |-> NilMap]

\* Every combination of signed, encrypted and decodable is delivered; the
\* ones that are signed, encrypted and decodable carry every attribute map,
\* the others no attr or one attribute.
ConfigureMessages ==
    {EmptyMessage}
    \cup { m \in [signed : BOOLEAN, encrypted : BOOLEAN, decodeErr : BOOLEAN, empty : {FALSE},
                  attr : {NilMap, Put(EmptyMap, NodeAttrName, ValueNames[1])}] :
             ~(m.signed /\ m.encrypted /\ ~m.decodeErr) }
    \cup [signed : {TRUE}, encrypted : {TRUE}, decodeErr : {FALSE}, empty : {FALSE},
          attr : Maps(ParamKeys, ParamValues) \cup {NilMap}]

\* the addresses configure commands arrive on: one per node ID, and one too short
ConfigureAddresses ==
    { MakeNodeConfigureAddress(Domain, PublisherID, id) : id \in HWIDs \cup (NewNodeIDs \ {""}) }
    \cup { << Domain, PublisherID >> }

\* messageSigner.DecodeMessage: isSigned, isEncrypted, err and the decoded message
DecodeMessage(message) ==
    [isSigned |-> message.signed, isEncrypted |-> message.encrypted,
     err |-> message.decodeErr, attr |-> message.attr]

\* The application's configure handlers: none, one that lets every
\* parameter through, one that lets none through (returns nil)
ConfigureHandlers == {"nil", "pass", "veto"}

\* with them, one that answers every command with a map of its own
ConfigureFilters == ConfigureHandlers \cup {"fixed"}

CallConfigureHandler(handler, address, params) ==
    IF handler = "pass" THEN params
    ELSE IF handler = "fixed" THEN Put(EmptyMap, NodeAttrName, "filtered")
    ELSE NilMap

\* the guard with the check of the signature left out
ConfigureGateErrorUnsigned(decoded) ==
    IF ~decoded.isEncrypted THEN "not encrypted"
    ELSE IF decoded.err THEN "decode error"
    ELSE ""

\* the guard of receiveConfigureCommand: the error it returns before the node
\* is looked up, "" when the message passes
ConfigureGateError(decoded) ==
    IF ~decoded.isEncrypted THEN "not encrypted"
    ELSE IF ~decoded.isSigned THEN "not signed"
    ELSE IF decoded.err THEN "decode error"
    ELSE ""

\* receiveConfigureCommand with the handler's answer left aside
receiveConfigureCommandInUnfiltered(reg, heap, handler, address, message) ==
    LET decoded == DecodeMessage(message)
        gate    == ConfigureGateError(decoded)
        node    == GetNodeByAddress(reg, address)
        params  == decoded.attr
    IN  IF gate # ""
        THEN [reg |-> reg, err |-> gate, invoked |-> FALSE, hwID |-> "", params |-> NilMap]
        ELSE IF node = Nil \/ message.empty
        THEN [reg |-> reg, err |-> "unknown node", invoked |-> FALSE, hwID |-> "",
              params |-> NilMap]
        ELSE IF params # NilMap
        THEN [reg     |-> UpdateNodeConfigValuesIn(reg, heap, node.nodeID, params).reg,
              err     |-> "", invoked |-> TRUE, hwID |-> node.nodeID, params |-> params]
        ELSE [reg |-> reg, err |-> "", invoked |-> FALSE, hwID |-> "", params |-> NilMap]

\* receiveConfigureCommand
receiveConfigureCommandIn(reg, heap, handler, address, message) ==
    LET decoded == DecodeMessage(message)
        gate    == ConfigureGateError(decoded)
        node    == GetNodeByAddress(reg, address)
        params  == IF handler # "nil"
                   THEN CallConfigureHandler(handler, address, decoded.attr)
                   ELSE decoded.attr
    IN  IF gate # ""
        THEN [reg |-> reg, err |-> gate, invoked |-> FALSE, hwID |-> "", params |-> NilMap]
        ELSE IF node = Nil \/ message.empty
        THEN [reg |-> reg, err |-> "unknown node", invoked |-> FALSE, hwID |-> "",
              params |-> NilMap]
        ELSE IF params # NilMap
        THEN [reg     |-> UpdateNodeConfigValuesIn(reg, heap, node.nodeID, params).reg,
              err     |-> "", invoked |-> TRUE, hwID |-> node.nodeID, params |-> params]
        ELSE [reg |-> reg, err |-> "", invoked |-> FALSE, hwID |-> "", params |-> NilMap]

receiveConfigureCommand(address, message) ==
    LET r == receiveConfigureCommandIn(Registry, configHeap, nodeConfigureHandler,
                                       address, message) IN
    /\ SetRegistry(r.reg)
    /\ last' = [op |-> "receiveConfigureCommand", signed |-> message.signed,
                encrypted |-> message.encrypted, decodeErr |-> message.decodeErr,
                err |-> r.err, invoked |-> r.invoked]
    /\ UNCHANGED << configHeap, nodeConfigureHandler, setVars, pubVars >>

SetConfigureNodeHandler(handler) ==
    /\ nodeConfigureHandler' = handler
    /\ last' = [op |-> "SetConfigureNodeHandler"]
    /\ UNCHANGED << deviceMap, nodeMap, updatedNodes, configHeap, setVars, pubVars >>

-----------------------------------------------------------------------------
(* InputFromSetCommands *)

\* Go's < on strings: byte by byte, a proper prefix is less
RECURSIVE StrLess(_, _)
StrLess(a, b) ==
    IF a = << >> THEN b # << >>
    ELSE IF b = << >> THEN FALSE
    ELSE IF a[1] # b[1] THEN a[1] < b[1]
    ELSE StrLess(Tail(a), Tail(b))

\* the timestamps set commands carry: every string of at most MaxTsLen
\* characters, the empty one (no timestamp in the payload) included
MaxTsLen   == 1
TsChars    == {1, 2}
Timestamps == UNION { [1..n -> TsChars] : n \in 0..MaxTsLen }

Senders == {"alice", "bob"}
Values  == {"on"}

\* the input the application creates and deletes (node, type, instance), and
\* one it never creates
InputIDs     == { << "hw1", "switch", "0" >> }
OtherInputID == << "hw1", "switch", "1" >>

MakeSetInputAddress(domain, publisherID, nodeID, inputType, instance) ==
    << domain, publisherID, nodeID, inputType, instance, MessageTypeSet >>

MakeInputDiscoveryAddress(domain, publisherID, nodeID, inputType, instance) ==
    << domain, publisherID, nodeID, inputType, instance, MessageTypeInputDiscovery >>

SetAddressOf(input) == MakeSetInputAddress(Domain, PublisherID, input[1], input[2], input[3])

InputAddressOf(input) ==
    MakeInputDiscoveryAddress(Domain, PublisherID, input[1], input[2], input[3])

\* the addresses set commands arrive on: the set address of each input, and
\* one that lacks its last segment
SetAddresses ==
    { SetAddressOf(input) : input \in InputIDs \cup {OtherInputID} }
    \cup { << Domain, PublisherID, "hw1", "switch", "0" >> }

\* A set command as the bus delivers it, with what DecodeMessage finds: every
\* combination of signed, encrypted and decodable, from every sender, with
\* every timestamp.
SetMessages ==
    [signed : BOOLEAN, encrypted : BOOLEAN, decodeErr : BOOLEAN,
     sender : Senders, timestamp : Timestamps, value : Values]

\* messageSigner.Subscribe and Unsubscribe: the subscriptions the transport
\* holds for a topic
BusSubscribe(bus, topic) ==
    Put(bus, topic, IF topic \in DOMAIN bus THEN bus[topic] + 1 ELSE 1)

BusUnsubscribe(bus, topic) == [t \in (DOMAIN bus) \ {topic} |-> bus[t]]

\* subscribeToSetCommand without the look for a subscription it has made
subscribeToSetCommandAgain(subs, bus, input) ==
    LET setAddr == SetAddressOf(input) IN
    [subscriptions |-> subs \cup {setAddr}, bus |-> BusSubscribe(bus, setAddr)]

\* subscribeToSetCommand: one subscription per set address
subscribeToSetCommand(subs, bus, input) ==
    LET setAddr == SetAddressOf(input) IN
    IF setAddr \notin subs
    THEN [subscriptions |-> subs \cup {setAddr}, bus |-> BusSubscribe(bus, setAddr)]
    ELSE [subscriptions |-> subs, bus |-> bus]

\* unsubscribeFromSetCommand
unsubscribeFromSetCommand(subs, bus, input) ==
    LET setAddr == SetAddressOf(input) IN
    IF setAddr \in subs
    THEN [subscriptions |-> subs \ {setAddr}, bus |-> BusUnsubscribe(bus, setAddr)]
    ELSE [subscriptions |-> subs, bus |-> bus]

\* RegisteredInputs.NotifyInputHandler: the callback of the input at the
\* address is called when the input is registered
NotifyInputHandler(inputs, inputAddr) == inputAddr \in inputs

\* senderTimestamp[sender]: the empty string when the sender has no entry
PrevTimestamp(table, sender) == IF sender \in DOMAIN table THEN table[sender] ELSE << >>

\* the guard with the check of the encryption left out
SetGateErrorPlain(message) ==
    IF ~message.signed THEN "not signed"
    ELSE IF message.decodeErr THEN "decode error"
    ELSE ""

\* the guard of decodeSetCommand on what DecodeMessage returns
SetGateError(message) ==
    IF ~message.encrypted THEN "not encrypted"
    ELSE IF ~message.signed THEN "not signed"
    ELSE IF message.decodeErr THEN "decode error"
    ELSE ""

\* the replay check with its comparison turned around
IsReplayInverted(prevTimestamp, timestamp) == StrLess(prevTimestamp, timestamp)

\* the replay check of decodeSetCommand: prevTimestamp > setMessage.Timestamp
IsReplay(prevTimestamp, timestamp) == StrLess(timestamp, prevTimestamp)

\* decodeSetCommand, from its start to its return
decodeSetCommandIn(table, inputs, address, message) ==
    LET inputAddr == [address EXCEPT ![6] = MessageTypeInputDiscovery]
        gate      == SetGateError(message)
        prev      == PrevTimestamp(table, message.sender)
    IN  IF Len(address) < 6
        THEN [table |-> table, err |-> "incomplete", called |-> FALSE]
        ELSE IF gate # ""
        THEN [table |-> table, err |-> gate, called |-> FALSE]
        ELSE IF IsReplay(prev, message.timestamp)
        THEN [table |-> table, err |-> "earlier timestamp", called |-> FALSE]
        ELSE [table  |-> Put(table, message.sender, message.timestamp),
              err    |-> "",
              called |-> NotifyInputHandler(inputs, inputAddr)]

\* what the history keeps of a delivery: the message, whether the address was
\* complete and its input registered, the sender's entry before the call,
\* the error returned and whether a callback was called
Delivery(address, message, r) ==
    [op        |-> "decodeSetCommand",
     signed    |-> message.signed,
     encrypted |-> message.encrypted,
     decodeErr |-> message.decodeErr,
     sender    |-> message.sender,
     timestamp |-> message.timestamp,
     complete  |-> Len(address) >= 6,
     registered |-> /\ Len(address) >= 6
                    /\ [address EXCEPT ![6] = MessageTypeInputDiscovery] \in registeredInputs,
     prevKnown |-> message.sender \in DOMAIN senderTimestamp,
     prevTs    |-> PrevTimestamp(senderTimestamp, message.sender),
     err       |-> r.err,
     called    |-> r.called]

decodeSetCommand(address, message) ==
    LET r == decodeSetCommandIn(senderTimestamp, registeredInputs, address, message) IN
    /\ senderTimestamp' = r.table
    /\ last' = Delivery(address, message, r)
    /\ UNCHANGED << subscriptions, registeredInputs, busSubscriptions, thread,
                    nodeVars, pubVars >>

CreateInput(input) ==
    LET r == subscribeToSetCommand(subscriptions, busSubscriptions, input) IN
    /\ registeredInputs' = registeredInputs \cup {InputAddressOf(input)}
    /\ subscriptions' = r.subscriptions
    /\ busSubscriptions' = r.bus
    /\ last' = [op |-> "CreateInput"]
    /\ UNCHANGED << senderTimestamp, thread, nodeVars, pubVars >>

DeleteInput(input) ==
    LET r == unsubscribeFromSetCommand(subscriptions, busSubscriptions, input) IN
    /\ subscriptions' = r.subscriptions
    /\ busSubscriptions' = r.bus
    /\ registeredInputs' = registeredInputs \ {InputAddressOf(input)}
    /\ last' = [op |-> "DeleteInput"]
    /\ UNCHANGED << senderTimestamp, thread, nodeVars, pubVars >>

-----------------------------------------------------------------------------
(* ReceiveNodeConfigure on the transport *)

\* the topic Start subscribes to: the configure address with the wildcard
\* "+" for the node ID
ConfigureTopic == MakeNodeAddress(Domain, PublisherID, "+", MessageTypeConfigure)

\* the transport's match of an address with a topic: segment by segment, "+"
\* matching any one segment
TopicMatches(topic, address) ==
    /\ Len(topic) = Len(address)
    /\ \A i \in DOMAIN topic : topic[i] = "+" \/ topic[i] = address[i]

\* the subscriptions the transport holds for a topic
SubscriptionCount(bus, topic) == IF topic \in DOMAIN bus THEN bus[topic] ELSE 0

\* the Start calls made without a Stop that the model follows
MaxStarts == 2

\* Start: messageSigner.Subscribe(addr, receiveConfigureCommand), under the
\* ingestor's lock
Start ==
    /\ SubscriptionCount(busSubscriptions, ConfigureTopic) < MaxStarts
    /\ busSubscriptions' = BusSubscribe(busSubscriptions, ConfigureTopic)
    /\ last' = [op |-> "Start"]
    /\ UNCHANGED << nodeVars, senderTimestamp, subscriptions, registeredInputs, thread,
                    pubVars >>

\* Stop: messageSigner.Unsubscribe(addr, receiveConfigureCommand)
Stop ==
    /\ busSubscriptions' = BusUnsubscribe(busSubscriptions, ConfigureTopic)
    /\ last' = [op |-> "Stop"]
    /\ UNCHANGED << nodeVars, senderTimestamp, subscriptions, registeredInputs, thread,
                    pubVars >>

\* the transport hands a configure command to receiveConfigureCommand when a
\* subscription matches its address
deliverConfigureCommand(address, message) ==
    /\ \E topic \in DOMAIN busSubscriptions : TopicMatches(topic, address)
    /\ receiveConfigureCommand(address, message)

-----------------------------------------------------------------------------
(* Publisher.handlePublisherDiscovery *)

\* publishers.MakePublisherIdentityAddress
MakePublisherIdentityAddress(domain, publisherID) ==
    << domain, publisherID, MessageTypeIdentity >>

DssAddress == MakePublisherIdentityAddress(Domain, DSSPublisherID)

\* the identity addresses announcements arrive on and name: the DSS and a publisher
IdentityAddresses == { DssAddress, MakePublisherIdentityAddress(Domain, "p1") }

\* public signing keys; NoKey is a nil *ecdsa.PublicKey
SigningKeys == {"key1", "key2"}
NoKey       == "nil"

\* A PublisherIdentityMessage: the address it names, its public signing key
\* and its IdentitySignature.  The signature is kept as the key under which
\* it verifies for this identity; "none" verifies under no key (absent,
\* forged, or made for another identity).
Identities == [address : IdentityAddresses, key : SigningKeys, sig : SigningKeys \cup {"none"}]

\* An announcement as the bus delivers it: whether jose.ParseSigned parses
\* it (jws), whether the signature of that envelope verifies with the
\* signing key of the identity in it (verifies), whether its payload parses
\* as JSON into an identity (json), and that identity.
Announcements ==
    { m \in [jws : BOOLEAN, verifies : BOOLEAN, json : BOOLEAN, identity : Identities] :
        /\ m.verifies => m.jws
        /\ ~m.json => m.identity = [address |-> DssAddress, key |-> "key1", sig |-> "none"] }

\* domainPublishers.UpdatePublisher: the identity is stored under its address
UpdatePublisher(directory, identity) == Put(directory, identity.address, identity)

\* domainPublishers.GetPublisherKey: the signing key of the identity stored
\* under the address, nil when there is none
GetPublisherKey(directory, address) ==
    IF address \in DOMAIN directory THEN directory[address].key ELSE NoKey

\* messaging.VerifyEcdsaSignature of the identity's serialization
VerifyEcdsaSignature(identity, signature, key) == signature = key

\* handleDSSDiscovery: the DSS identity is stored as it comes
handleDSSDiscovery(directory, dssIdentityMsg) == UpdatePublisher(directory, dssIdentityMsg)

\* the policy check with the policy ignored
UnsignedRefusedNever(policy, message) == FALSE

\* lines 45-53: an announcement that is not a signed envelope is refused when
\* the policy asks for signed ones
UnsignedRefused(policy, message) == ~message.jws /\ policy

\* the key looked up under the address of the announcement
DssSigningKeyOfAnnouncer(directory, address) == GetPublisherKey(directory, address)

\* line 78: the DSS signing key the trust decision uses
DssSigningKey(directory, address) == GetPublisherKey(directory, DssAddress)

\* the trust decision with the verdict of the verification ignored
TrustDecisionUnverified(directory, identity, dssSigningKey) ==
    [directory |-> UpdatePublisher(directory, identity), err |-> "",
     mode |-> IF dssSigningKey = NoKey THEN "AddressProtection" ELSE "DSSVerified"]

\* lines 79-103: without a DSS key the identity is stored; with one it is
\* stored only if its IdentitySignature verifies under that key
TrustDecision(directory, identity, dssSigningKey) ==
    IF dssSigningKey = NoKey
    THEN [directory |-> UpdatePublisher(directory, identity), err |-> "",
          mode |-> "AddressProtection"]
    ELSE IF ~VerifyEcdsaSignature(identity, identity.sig, dssSigningKey)
    THEN [directory |-> directory, err |-> "no valid DSS signature", mode |-> "DSSVerified"]
    ELSE [directory |-> UpdatePublisher(directory, identity), err |-> "",
          mode |-> "DSSVerified"]

\* handlePublisherDiscovery
handlePublisherDiscoveryIn(directory, policy, address, message) ==
    IF UnsignedRefused(policy, message)
    THEN [directory |-> directory, err |-> "not signed", mode |-> "none"]
    ELSE IF ~message.json
    THEN [directory |-> directory, err |-> "failed parsing json", mode |-> "none"]
    ELSE
    LET pubIdentityMsg == message.identity
        afterDSS       == IF address = DssAddress
                          THEN handleDSSDiscovery(directory, pubIdentityMsg)
                          ELSE directory
    IN  TrustDecision(afterDSS, pubIdentityMsg, DssSigningKey(afterDSS, address))

handlePublisherDiscovery(address, message) ==
    LET r == handlePublisherDiscoveryIn(domainPublishers, signMessages, address, message) IN
    /\ domainPublishers' = r.directory
    /\ everDSSVerified' = (everDSSVerified \/ r.mode = "DSSVerified")
    /\ last' = [op        |-> "handlePublisherDiscovery",
                address   |-> address,
                jws       |-> message.jws,
                verifies  |-> message.verifies,
                json      |-> message.json,
                identity  |-> message.identity,
                escalated |-> everDSSVerified,
                err       |-> r.err,
                mode      |-> r.mode]
    /\ UNCHANGED << signMessages, nodeVars, setVars >>

-----------------------------------------------------------------------------
(* Initial values: what the constructors make *)

\* NewRegisteredNodes and NewReceiveNodeConfigure
InitNodes ==
    /\ deviceMap = EmptyMap
    /\ nodeMap = EmptyMap
    /\ updatedNodes = EmptyMap
    /\ configHeap = EmptyMap

\* NewInputFromSetCommands
InitSet ==
    /\ senderTimestamp = EmptyMap
    /\ subscriptions = {}
    /\ registeredInputs = {}
    /\ busSubscriptions = EmptyMap

\* the publisher directory, empty
InitPub ==
    /\ domainPublishers = EmptyMap
    /\ everDSSVerified = FALSE

-----------------------------------------------------------------------------
(* The configure ingestor over the node registry, calls made one at a time *)

InitConfigure ==
    /\ InitNodes
    /\ nodeConfigureHandler \in ConfigureHandlers
    /\ InitSet
    /\ thread = EmptyMap
    /\ InitPub
    /\ signMessages = FALSE
    /\ last = [op |-> "none"]

NextConfigure ==
    \/ \E hwID \in HWIDs \cup {""}, nodeType \in NodeTypes : CreateNode(hwID, nodeType)
    \/ \E hwID \in HWIDs, newNodeID \in NewNodeIDs :
          SetNodeID(GetNodeByHWID(Registry, hwID), newNodeID)
    \/ GetUpdatedNodes(TRUE)
    \/ \E handler \in ConfigureHandlers : SetConfigureNodeHandler(handler)
    \/ \E address \in ConfigureAddresses, message \in ConfigureMessages :
          receiveConfigureCommand(address, message)

SpecConfigure == InitConfigure /\ [][NextConfigure]_vars

\* C1: a configure command reaches UpdateNodeConfigValues, and the registry
\* changes, only if the message decoded as signed and encrypted without a
\* decode error; any other message returns an error and leaves deviceMap,
\* nodeMap and the updated set as they were.
C1_ConfigureGate ==
    [][ last'.op = "receiveConfigureCommand" =>
          LET accepted == last'.signed /\ last'.encrypted /\ ~last'.decodeErr IN
          /\ last'.invoked => accepted
          /\ << deviceMap', nodeMap', updatedNodes' >> # << deviceMap, nodeMap, updatedNodes >>
                => accepted
          /\ ~accepted => /\ last'.err # ""
                          /\ UNCHANGED << deviceMap, nodeMap, updatedNodes >> ]_vars

\* a signed but unencrypted command was delivered while a node was registered
\* under the address, and was refused
C1_Witness ==
    /\ last.op = "receiveConfigureCommand"
    /\ last.signed /\ ~last.encrypted /\ ~last.decodeErr
    /\ last.err = "not encrypted"
    /\ DOMAIN deviceMap = HWIDs

\* the Attr of a node after the values of params whose key has a Config
\* entry are applied to it
AttrWithConfigValues(node, params) ==
    LET applied == (DOMAIN params) \cap (DOMAIN configHeap[node.cfgRef]) IN
    [key \in (DOMAIN node.attr) \cup applied |->
        IF key \in applied THEN params[key] ELSE node.attr[key]]

\* C17: an accepted configure command whose address resolves, through the
\* nodeID, to the registered node N, and whose parameters the handler lets
\* through, sets N's attributes to the command's values for the keys that
\* have a Config entry, and changes no other node; N's nodeID may differ
\* from its hwID.
C17_ConfigureAppliesToAddressedNode ==
    [][ \A address \in ConfigureAddresses, message \in ConfigureMessages :
          LET N == GetNodeByAddress(Registry, address) IN
          ( /\ ConfigureGateError(DecodeMessage(message)) = ""
            /\ ~message.empty
            /\ message.attr # NilMap
            /\ nodeConfigureHandler \in {"nil", "pass"}
            /\ N # Nil
            /\ receiveConfigureCommand(address, message) )
          => /\ deviceMap'[N.hwID].attr = AttrWithConfigValues(N, message.attr)
             /\ \A other \in (DOMAIN deviceMap) \ {N.hwID} :
                   deviceMap'[other] = deviceMap[other] ]_vars

-----------------------------------------------------------------------------
(* Configure commands under the application's filter *)

NextConfigureFilter ==
    \/ \E hwID \in HWIDs, nodeType \in NodeTypes : CreateNode(hwID, nodeType)
    \/ SetNodeID(GetNodeByHWID(Registry, "hw1"), "alias")
    \/ \E handler \in ConfigureFilters : SetConfigureNodeHandler(handler)
    \/ \E address \in ConfigureAddresses, message \in ConfigureMessages :
          receiveConfigureCommand(address, message)

SpecConfigureFilter == InitConfigure /\ [][NextConfigureFilter]_vars

\* the map a command's parameters become on the way to
\* UpdateNodeConfigValues: the handler's answer when a handler is set
Filtered(address, params) ==
    IF nodeConfigureHandler # "nil"
    THEN CallConfigureHandler(nodeConfigureHandler, address, params)
    ELSE params

\* C31: for a command that passes the gate and addresses a registered node,
\* the registry becomes what UpdateNodeConfigValues makes of it with the map
\* the handler returned, or with the command's own map when no handler is
\* set; when that map is nil no call is made and the registry stays as it
\* is; in each case no error is returned.
C31_FilterDecides ==
    [][ \A address \in ConfigureAddresses, message \in ConfigureMessages :
          LET node    == GetNodeByAddress(Registry, address)
              applied == Filtered(address, message.attr)
          IN
          ( /\ ConfigureGateError(DecodeMessage(message)) = ""
            /\ ~message.empty
            /\ node # Nil
            /\ receiveConfigureCommand(address, message) )
          => /\ last'.err = ""
             /\ last'.invoked = (applied # NilMap)
             /\ [deviceMap |-> deviceMap', nodeMap |-> nodeMap', updatedNodes |-> updatedNodes']
                  = IF applied = NilMap THEN Registry
                    ELSE UpdateNodeConfigValuesIn(Registry, configHeap, node.nodeID, applied).reg
             /\ configHeap' = configHeap ]_vars

\* a command for node hw1 was answered by the handler with its own map, and
\* the node carries the name the handler gave
C31_Witness ==
    /\ last.op = "receiveConfigureCommand"
    /\ last.invoked
    /\ nodeConfigureHandler = "fixed"
    /\ "hw1" \in DOMAIN deviceMap
    /\ GetStr(deviceMap["hw1"].attr, NodeAttrName) = "filtered"

-----------------------------------------------------------------------------
(* The configure ingestor started and stopped: commands arrive while it is  *)
(* subscribed                                                               *)

NextConfigureLifecycle ==
    \/ \E hwID \in HWIDs, nodeType \in NodeTypes : CreateNode(hwID, nodeType)
    \/ Start
    \/ Stop
    \/ \E address \in ConfigureAddresses, message \in ConfigureMessages :
          deliverConfigureCommand(address, message)

SpecConfigureLifecycle == InitConfigure /\ [][NextConfigureLifecycle]_vars

\* C25: the transport holds at most one subscription for the wildcard
\* configure topic, a Start when there is one adds none, and after a Stop
\* there is none.
C25_OneConfigureSubscription ==
    /\ SubscriptionCount(busSubscriptions, ConfigureTopic) <= 1
    /\ last.op = "Stop" => SubscriptionCount(busSubscriptions, ConfigureTopic) = 0

-----------------------------------------------------------------------------
(* The set-command ingestor, deliveries made one at a time *)

InitSetCommands ==
    /\ InitSet
    /\ thread = EmptyMap
    /\ InitNodes
    /\ nodeConfigureHandler = "nil"
    /\ InitPub
    /\ signMessages = FALSE
    /\ last = [op |-> "none"]

NextSetCommands ==
    \/ \E input \in InputIDs : CreateInput(input)
    \/ \E input \in InputIDs : DeleteInput(input)
    \/ \E address \in SetAddresses, message \in SetMessages :
          decodeSetCommand(address, message)

SpecSetCommands == InitSetCommands /\ [][NextSetCommands]_vars

\* a delivery that was addressed in full and passed the guard
ValidDelivery(d) ==
    /\ d.op = "decodeSetCommand"
    /\ d.complete
    /\ d.signed /\ d.encrypted /\ ~d.decodeErr

\* C2: decodeSetCommand calls an input callback only if the message decoded
\* as signed and encrypted without a decode error; any other message returns
\* an error, calls no callback and leaves the sender timestamps as they were.
C2_SetGate ==
    [][ last'.op = "decodeSetCommand" =>
          LET accepted == last'.signed /\ last'.encrypted /\ ~last'.decodeErr IN
          /\ last'.called => accepted
          /\ ~accepted => /\ last'.err # ""
                          /\ ~last'.called
                          /\ senderTimestamp' = senderTimestamp ]_vars

\* an encrypted but unsigned command with a timestamp newer than the
\* sender's entry came for a registered input, and was refused
C2_Witness ==
    /\ last.op = "decodeSetCommand"
    /\ ~last.signed /\ last.encrypted /\ ~last.decodeErr
    /\ last.complete /\ last.registered
    /\ StrLess(last.prevTs, last.timestamp)
    /\ last.err = "not signed"

\* C3: a set command whose timestamp is not strictly newer than the
\* timestamp last accepted from its sender is refused and calls no callback;
\* in particular one that repeats the last accepted timestamp.
C3_NotNewerRejected ==
    ( /\ ValidDelivery(last)
      /\ last.prevKnown
      /\ ~StrLess(last.prevTs, last.timestamp) )
    => (last.err # "" /\ ~last.called)

\* C4: two valid commands of one sender for a registered input, delivered
\* one after the other, the first one accepted.  When the second is the
\* older one it is refused and calls no callback (one callback in all); when
\* the second is the newer one it is accepted too and the callback is called
\* twice.  The first command of a sender is accepted.
C4_ReplayOrder ==
    [][ /\ ( /\ ValidDelivery(last) /\ ValidDelivery(last')
             /\ last.sender = last'.sender
             /\ last.registered /\ last'.registered
             /\ last.err = "" )
           => /\ StrLess(last'.timestamp, last.timestamp)
                    => (last.called /\ last'.err # "" /\ ~last'.called)
              /\ StrLess(last.timestamp, last'.timestamp)
                    => (last.called /\ last'.err = "" /\ last'.called)
        /\ ( ValidDelivery(last') /\ ~last'.prevKnown )
           => (last'.err = "" /\ (last'.registered <=> last'.called)) ]_vars

\* the older of two commands came after the newer was accepted, for a
\* registered input, and was refused
C4_Witness ==
    /\ ValidDelivery(last)
    /\ last.registered
    /\ last.prevKnown
    /\ StrLess(last.timestamp, last.prevTs)
    /\ last.err = "earlier timestamp"
    /\ ~last.called

\* C27: a signed and encrypted set command for an input address that is not
\* registered returns an error and calls no callback.
C27_UnknownInputRejected ==
    (ValidDelivery(last) /\ ~last.registered) => (last.err # "" /\ ~last.called)

\* C34: a delivery that does not reach an input callback leaves every
\* sender's recorded timestamp as it was, and a delivery that reaches one
\* changes no entry but its sender's.
C34_TimestampFrame ==
    [][ last'.op = "decodeSetCommand" =>
          /\ ~last'.called => senderTimestamp' = senderTimestamp
          /\ \A sender \in (DOMAIN senderTimestamp) \ {last'.sender} :
                /\ sender \in DOMAIN senderTimestamp'
                /\ senderTimestamp'[sender] = senderTimestamp[sender] ]_vars

-----------------------------------------------------------------------------
(* Inputs created and deleted, set commands arriving on the topics that are *)
(* subscribed                                                               *)

\* the inputs the application creates and deletes here
AllInputIDs == InputIDs \cup {OtherInputID}

\* the transport hands a set command to decodeSetCommand when a subscription
\* matches its address
deliverSetCommand(address, message) ==
    /\ \E topic \in DOMAIN busSubscriptions : TopicMatches(topic, address)
    /\ decodeSetCommand(address, message)

NextInputs ==
    \/ \E input \in AllInputIDs : CreateInput(input)
    \/ \E input \in AllInputIDs : DeleteInput(input)
    \/ \E address \in SetAddresses, message \in SetMessages :
          /\ message.sender = "alice"
          /\ deliverSetCommand(address, message)

SpecInputs == InitSetCommands /\ [][NextInputs]_vars

\* the inputs that are created
CreatedInputs == { input \in AllInputIDs : InputAddressOf(input) \in registeredInputs }

\* C26: the topics subscribed on the transport are the set addresses of the
\* inputs that are created, each subscribed once.
C26_OneSubscriptionPerInput ==
    /\ DOMAIN busSubscriptions = { SetAddressOf(input) : input \in CreatedInputs }
    /\ \A topic \in DOMAIN busSubscriptions : busSubscriptions[topic] = 1

\* one of the two inputs is left after the other was deleted, commands
\* having arrived
C26_Witness ==
    /\ last.op = "DeleteInput"
    /\ CreatedInputs = {OtherInputID}
    /\ DOMAIN busSubscriptions = {SetAddressOf(OtherInputID)}
    /\ senderTimestamp # EmptyMap

-----------------------------------------------------------------------------
(* The set-command ingestor under concurrent deliveries.  decodeSetCommand  *)
(* takes no lock, so between its read of senderTimestamp, its write of it   *)
(* and its call of NotifyInputHandler the other delivery threads run.  A    *)
(* step holds at most one access to senderTimestamp.  Go's maps are not     *)
(* safe for concurrent use: a write that overlaps another access may end    *)
(* the process ("fatal error: concurrent map writes").                      *)

Threads == {"t1", "t2"}

IdleThread == [pc |-> "idle"]

\* decodeSetCommand up to and including prevTimestamp := senderTimestamp[sender]
deliverBegin(t, address, message) ==
    /\ thread[t].pc = "idle"
    /\ IF Len(address) < 6 \/ SetGateError(message) # ""
       THEN /\ last' = [op |-> "return error", thread |-> t]
            /\ UNCHANGED thread
       ELSE /\ thread' = [thread EXCEPT ![t] =
                            [pc        |-> "check",
                             inputAddr |-> [address EXCEPT ![6] = MessageTypeInputDiscovery],
                             sender    |-> message.sender,
                             timestamp |-> message.timestamp,
                             prev      |-> PrevTimestamp(senderTimestamp, message.sender)]]
            /\ last' = [op |-> "read", thread |-> t]
    /\ UNCHANGED << senderTimestamp, subscriptions, registeredInputs, busSubscriptions,
                    nodeVars, pubVars >>

\* the replay check on the timestamp read, and the write of the new one
deliverStore(t) ==
    /\ thread[t].pc = "check"
    /\ IF IsReplay(thread[t].prev, thread[t].timestamp)
       THEN /\ thread' = [thread EXCEPT ![t] = IdleThread]
            /\ last' = [op |-> "return error", thread |-> t]
            /\ UNCHANGED senderTimestamp
       ELSE /\ senderTimestamp' = Put(senderTimestamp, thread[t].sender, thread[t].timestamp)
            /\ thread' = [thread EXCEPT ![t].pc = "notify"]
            /\ last' = [op |-> "write", thread |-> t]
    /\ UNCHANGED << subscriptions, registeredInputs, busSubscriptions, nodeVars, pubVars >>

\* NotifyInputHandler and the return
deliverNotify(t) ==
    /\ thread[t].pc = "notify"
    /\ thread' = [thread EXCEPT ![t] = IdleThread]
    /\ last' = [op        |-> "notify",
                sender    |-> thread[t].sender,
                timestamp |-> thread[t].timestamp,
                called    |-> NotifyInputHandler(registeredInputs, thread[t].inputAddr)]
    /\ UNCHANGED << senderTimestamp, subscriptions, registeredInputs, busSubscriptions,
                    nodeVars, pubVars >>

\* a thread about to write the map while another is at it: the runtime may
\* end the process
concurrentMapFault ==
    /\ \E t \in Threads, u \in Threads :
          /\ t # u
          /\ thread[t].pc = "check"
          /\ ~IsReplay(thread[t].prev, thread[t].timestamp)
          /\ thread[u].pc = "check"
    /\ thread' = [t \in Threads |-> [pc |-> "fatal"]]
    /\ last' = [op |-> "fatal error"]
    /\ UNCHANGED << senderTimestamp, subscriptions, registeredInputs, busSubscriptions,
                    nodeVars, pubVars >>

InitSetConcurrent ==
    /\ InitSet
    /\ thread = [t \in Threads |-> IdleThread]
    /\ InitNodes
    /\ nodeConfigureHandler = "nil"
    /\ InitPub
    /\ signMessages = FALSE
    /\ last = [op |-> "none"]

NextSetConcurrent ==
    \/ \E input \in InputIDs :
          /\ \A t \in Threads : thread[t].pc # "fatal"
          /\ CreateInput(input)
    \/ \E t \in Threads, address \in SetAddresses, message \in SetMessages :
          deliverBegin(t, address, message)
    \/ \E t \in Threads : deliverStore(t)
    \/ \E t \in Threads : deliverNotify(t)
    \/ concurrentMapFault

SpecSetConcurrent == InitSetConcurrent /\ [][NextSetConcurrent]_vars

\* C5: under concurrent deliveries the timestamp recorded for a sender never
\* decreases, and the commands of a sender are handed to the callbacks in
\* the order of their timestamps.
C5_MonotonicPerSender ==
    [][ /\ \A s \in DOMAIN senderTimestamp :
              ~StrLess(senderTimestamp'[s], senderTimestamp[s])
        /\ ( /\ last.op = "notify" /\ last'.op = "notify"
             /\ last.called /\ last'.called
             /\ last.sender = last'.sender )
           => ~StrLess(last'.timestamp, last.timestamp) ]_vars

-----------------------------------------------------------------------------
(* The publisher directory under identity announcements, one at a time *)

InitPublisher ==
    /\ InitPub
    /\ signMessages \in BOOLEAN
    /\ InitNodes
    /\ nodeConfigureHandler = "nil"
    /\ InitSet
    /\ thread = EmptyMap
    /\ last = [op |-> "none"]

NextPublisher ==
    \E address \in IdentityAddresses, message \in Announcements :
        handlePublisherDiscovery(address, message)

SpecPublisher == InitPublisher /\ [][NextPublisher]_vars

\* the DSS identity is in the directory
DssKnown == DssAddress \in DOMAIN domainPublishers

\* the announcement carries an identity whose IdentitySignature verifies
\* under the DSS key the directory holds
Countersigned(d) ==
    d.json /\ VerifyEcdsaSignature(d.identity, d.identity.sig, GetPublisherKey(domainPublishers, DssAddress))

\* C6: an announcement for a publisher other than the DSS.  While no DSS is
\* known, an unsigned announcement is accepted and stored when the policy
\* does not ask for signed ones.  Once a DSS is known, an announcement whose
\* identity signature does not verify under the DSS key is refused with an
\* error and the directory keeps what it had.
C6_TrustEscalation ==
    [][ (last'.op = "handlePublisherDiscovery" /\ last'.address # DssAddress) =>
          /\ (~DssKnown /\ ~signMessages /\ ~last'.jws /\ last'.json)
                => /\ last'.err = ""
                   /\ last'.identity.address \in DOMAIN domainPublishers'
                   /\ domainPublishers'[last'.identity.address] = last'.identity
          /\ (DssKnown /\ ~Countersigned(last'))
                => /\ last'.err # ""
                   /\ UNCHANGED domainPublishers ]_vars

\* the publisher's unsigned identity, stored before a DSS was known, is still
\* in the directory after a later announcement for it was refused for want
\* of a DSS signature
C6_Witness ==
    /\ last.op = "handlePublisherDiscovery"
    /\ last.address # DssAddress
    /\ last.identity.address = last.address
    /\ last.err = "no valid DSS signature"
    /\ last.address \in DOMAIN domainPublishers
    /\ domainPublishers[last.address].sig = "none"
    /\ domainPublishers[last.address] # last.identity

\* C7: once a DSS is known, an announcement on the DSS address whose
\* identity signature does not verify under the DSS key held is refused with
\* an error and the directory is left as it was.
C7_DSSReannouncementRefused ==
    [][ ( /\ last'.op = "handlePublisherDiscovery"
          /\ last'.address = DssAddress
          /\ DssKnown
          /\ ~Countersigned(last') )
        => /\ last'.err # ""
           /\ UNCHANGED domainPublishers ]_vars

\* C8: while no DSS is known, an announcement that gets to the trust
\* decision is stored without a countersignature check and without an
\* error, the first announcement on the DSS address included.
C8_NoDSSAcceptedDirectly ==
    [][ ( /\ last'.op = "handlePublisherDiscovery"
          /\ ~DssKnown
          /\ last'.json
          /\ last'.jws \/ ~signMessages )
        => /\ last'.err = ""
           /\ last'.mode = "AddressProtection"
           /\ last'.identity.address \in DOMAIN domainPublishers'
           /\ domainPublishers'[last'.identity.address] = last'.identity ]_vars

\* C9: after one announcement was decided with the DSS key, no later
\* announcement is decided under address protection.
C9_OneWayTrust ==
    (last.op = "handlePublisherDiscovery" /\ last.escalated)
        => last.mode \in {"none", "DSSVerified"}

\* a later announcement for the publisher decided, and accepted, with the DSS key
C9_Witness ==
    /\ last.op = "handlePublisherDiscovery"
    /\ last.escalated
    /\ last.address # DssAddress
    /\ last.mode = "DSSVerified"
    /\ last.err = ""

\* C10: an announcement that does not parse as a signed envelope is refused
\* with an error, the directory unchanged, when the policy asks for signed
\* messages.  When it does not, the body is taken as the payload: it is
\* refused only if it is no identity or the DSS check fails, and without a
\* DSS key the identity it holds is stored.
C10_UnsignedPolicy ==
    [][ (last'.op = "handlePublisherDiscovery" /\ ~last'.jws) =>
          /\ signMessages => /\ last'.err = "not signed"
                             /\ UNCHANGED domainPublishers
          /\ ~signMessages =>
                /\ last'.err # "not signed"
                /\ ~last'.json => last'.err = "failed parsing json"
                /\ last'.json => last'.mode # "none"
                /\ (last'.json /\ last'.mode = "AddressProtection")
                      => domainPublishers'[last'.identity.address] = last'.identity ]_vars

\* a well-formed identity refused only because it came unsigned, by a
\* publisher that has already stored signed ones
C10_Witness ==
    /\ last.op = "handlePublisherDiscovery"
    /\ signMessages
    /\ ~last.jws
    /\ last.json
    /\ last.err = "not signed"
    /\ domainPublishers # EmptyMap
    /\ last.identity.address \notin DOMAIN domainPublishers

\* C30: an announcement that parses as a signed envelope whose signature
\* does not verify with the signing key of the identity in it is not stored:
\* the directory stays as it is.
C30_EnvelopeSignatureVerified ==
    [][ ( /\ last'.op = "handlePublisherDiscovery"
          /\ last'.jws
          /\ ~last'.verifies )
        => domainPublishers' = domainPublishers ]_vars

-----------------------------------------------------------------------------
(* The node registry under CreateNode and SetNodeID, calls made one at a time *)

\* the IDs SetNodeID is called with here: "" restores the hwID, a free
\* alias, and the hwIDs themselves
RenameIDs == NewNodeIDs \cup HWIDs

InitNodeIDs ==
    /\ InitNodes
    /\ nodeConfigureHandler = "nil"
    /\ InitSet
    /\ thread = EmptyMap
    /\ InitPub
    /\ signMessages = FALSE
    /\ last = [op |-> "none"]

NextNodeIDs ==
    \/ \E hwID \in HWIDs, nodeType \in NodeTypes : CreateNode(hwID, nodeType)
    \/ \E hwID \in HWIDs, newNodeID \in RenameIDs :
          SetNodeID(GetNodeByHWID(Registry, hwID), newNodeID)
    \/ \E clearUpdates \in BOOLEAN : GetUpdatedNodes(clearUpdates)

SpecNodeIDs == InitNodeIDs /\ [][NextNodeIDs]_vars

\* C11: CreateNode with a hwID that is registered returns the registered
\* node and leaves deviceMap, nodeMap and the updated set as they were;
\* CreateNode with a hwID that is not registered registers a node whose
\* nodeID is the hwID under both maps and marks it updated.
C11_CreateNodeIdempotent ==
    [][ \A hwID \in HWIDs, nodeType \in NodeTypes :
          CreateNode(hwID, nodeType) =>
            LET returned == CreateNodeIn(Registry, hwID, nodeType).node IN
            IF hwID \in DOMAIN deviceMap
            THEN /\ returned = deviceMap[hwID]
                 /\ ~last'.created
                 /\ UNCHANGED << deviceMap, nodeMap, updatedNodes >>
            ELSE /\ returned.hwID = hwID /\ returned.nodeID = hwID
                 /\ last'.created
                 /\ hwID \in DOMAIN deviceMap' /\ deviceMap'[hwID] = returned
                 /\ hwID \in DOMAIN nodeMap' /\ nodeMap'[hwID] = returned
                 /\ updatedNodes' # NilNodes
                 /\ returned.address \in DOMAIN updatedNodes'
                 /\ updatedNodes'[returned.address] = returned ]_vars

\* a second CreateNode, made after the updated set was cleared, that left it cleared
C11_Witness ==
    /\ last.op = "CreateNode"
    /\ ~last.created
    /\ DOMAIN deviceMap = HWIDs
    /\ updatedNodes = NilNodes

\* the registered node other than hwID that has the nodeID
OwnersOtherThan(hwID, nodeID) ==
    { other \in (DOMAIN deviceMap) \ {hwID} : deviceMap[other].nodeID = nodeID }

\* C15: SetNodeID(nodeA, X) returns false and leaves deviceMap, nodeMap and
\* the updated set as they were when a registered node other than nodeA has
\* nodeID X, X = nodeA's own hwID included.
C15_SetNodeIDUnique ==
    [][ \A hwID \in HWIDs, X \in RenameIDs :
          ( /\ hwID \in DOMAIN deviceMap
            /\ X # ""
            /\ OwnersOtherThan(hwID, X) # {}
            /\ SetNodeID(GetNodeByHWID(Registry, hwID), X) )
          => /\ ~last'.ok
             /\ UNCHANGED << deviceMap, nodeMap, updatedNodes >> ]_vars

\* C16: no two registered nodes have the same nodeID.
C16_NodeIDUnique ==
    \A a \in DOMAIN deviceMap, b \in DOMAIN deviceMap :
        a # b => deviceMap[a].nodeID # deviceMap[b].nodeID

\* C32: the two indexes agree: every node of deviceMap is registered under
\* its hwID and is the entry nodeMap has for its nodeID, and every entry of
\* nodeMap that is not nil is the entry deviceMap has for its hwID.
C32_IndexesAgree ==
    /\ \A h \in DOMAIN deviceMap :
          /\ deviceMap[h].hwID = h
          /\ GetNode(nodeMap, deviceMap[h].nodeID) = deviceMap[h]
    /\ \A id \in DOMAIN nodeMap :
          nodeMap[id] # Nil => GetNode(deviceMap, nodeMap[id].hwID) = nodeMap[id]

\* the effect of a successful SetNodeID(node, newNodeID) on the new ID: it resolves to a node with the hwID, Attr, Config and
\* Status of node, GetNodeByHWID returns that node, its address is made from
\* the new ID, and it is in the updated set; with an empty newNodeID the
\* nodeID is the hwID
RenamedBy(node, newNodeID) ==
    LET id      == IF newNodeID = "" THEN node.hwID ELSE newNodeID
        renamed == GetNode(nodeMap', id)
    IN  /\ renamed # Nil
        /\ renamed.nodeID = id
        /\ renamed.hwID = node.hwID
        /\ renamed.attr = node.attr
        /\ renamed.status = node.status
        /\ renamed.cfgRef = node.cfgRef
        /\ configHeap'[renamed.cfgRef] = configHeap[node.cfgRef]
        /\ GetNode(deviceMap', node.hwID) = renamed
        /\ renamed.address = MakeNodeDiscoveryAddress(Domain, PublisherID, id)
        /\ updatedNodes' # NilNodes
        /\ renamed.address \in DOMAIN updatedNodes'
        /\ updatedNodes'[renamed.address] = renamed
        /\ (newNodeID = "" => renamed.nodeID = node.hwID)

\* C21 as stated: after a successful SetNodeID(node, newNodeID) the old
\* nodeID resolves to no node, and the new ID resolves to the renamed node.
C21_OldIDRetired ==
    [][ \A hwID \in HWIDs, newNodeID \in RenameIDs :
          LET node == GetNodeByHWID(Registry, hwID) IN
          (node # Nil /\ SetNodeID(node, newNodeID) /\ last'.ok)
          => /\ GetNode(nodeMap', node.nodeID) = Nil
             /\ RenamedBy(node, newNodeID) ]_vars

\* C21, amended: after a successful SetNodeID(node, newNodeID) the old
\* nodeID resolves to no node when the node's new nodeID is another one than
\* the old; in every case the new ID resolves to the renamed node.
C21_OldIDRetiredWhenChanged ==
    [][ \A hwID \in HWIDs, newNodeID \in RenameIDs :
          LET node == GetNodeByHWID(Registry, hwID)
              id   == IF newNodeID = "" THEN node.hwID ELSE newNodeID
          IN
          (node # Nil /\ SetNodeID(node, newNodeID) /\ last'.ok)
          => /\ id # node.nodeID => GetNode(nodeMap', node.nodeID) = Nil
             /\ RenamedBy(node, newNodeID) ]_vars

\* a node has been renamed to "alias": its hwID is retired as a nodeID
C21_Witness ==
    /\ last.op = "SetNodeID"
    /\ last.ok
    /\ \E hwID \in DOMAIN deviceMap :
          /\ deviceMap[hwID].nodeID = "alias"
          /\ GetNode(nodeMap, "alias") = deviceMap[hwID]
          /\ hwID \in DOMAIN nodeMap
          /\ nodeMap[hwID] = Nil

-----------------------------------------------------------------------------
(* The node registry under the Update calls, made one at a time *)

\* the one device that is created; the calls also name one that never is
CreatedHWIDs == {"hw1"}

\* attribute names the calls pass: "interval" gets a Config entry when
\* CreateNodeConfig or UpdateNodeConfig gives it one, "unknown" never has one
UpdateKeys   == {"interval", "unknown"}
UpdateValues == {"42", "abc", ""}
UpdateMaps   == Maps(UpdateKeys, UpdateValues)

StatusMaps == Maps({NodeStatusRunState}, {"ready"})
RunStates  == {"ready", "error"}
ErrorMsgs  == {"", "boom"}

\* the names and descriptors the Config calls pass
ConfigNames == {"interval", NodeAttrName, ""}
ConfigAttrs == {NilConfig, NewNodeConfig("int", "polling interval", "10")}

InitNodeUpdates ==
    /\ InitNodes
    /\ nodeConfigureHandler = "nil"
    /\ InitSet
    /\ thread = EmptyMap
    /\ InitPub
    /\ signMessages = FALSE
    /\ last = [op |-> "none"]

NextNodeUpdates ==
    \/ \E hwID \in CreatedHWIDs, nodeType \in NodeTypes : CreateNode(hwID, nodeType)
    \/ \E clearUpdates \in BOOLEAN : GetUpdatedNodes(clearUpdates)
    \/ \E hwID \in HWIDs, attrParams \in UpdateMaps : UpdateNodeAttr(hwID, attrParams)
    \/ \E hwID \in HWIDs, statusAttr \in StatusMaps : UpdateNodeStatus(hwID, statusAttr)
    \/ \E hwID \in HWIDs, runState \in RunStates, errorMsg \in ErrorMsgs :
          UpdateErrorStatus(hwID, runState, errorMsg)
    \/ \E hwID \in HWIDs, params \in UpdateMaps \cup {NilMap} :
          UpdateNodeConfigValues(hwID, params)
    \/ \E hwID \in HWIDs, attrName \in ConfigNames, configAttr \in ConfigAttrs :
          UpdateNodeConfig(hwID, attrName, configAttr)
    \/ \E hwID \in HWIDs, attrName \in ConfigNames \ {""} :
          CreateNodeConfig(hwID, attrName, "int", "polling interval", "10")

SpecNodeUpdates == InitNodeUpdates /\ [][NextNodeUpdates]_vars

UpdateOps == {"UpdateNodeAttr", "UpdateNodeStatus", "UpdateErrorStatus",
              "UpdateNodeConfigValues"}

C13_OldConfigUnchanged ==
    [][ (last'.op \in {"UpdateNodeConfig", "CreateNodeConfig"}
         /\ last'.hwID \in DOMAIN deviceMap)
        => LET before == deviceMap[last'.hwID] IN
           configHeap'[before.cfgRef] = configHeap[before.cfgRef] ]_vars

\* every key of params is set in current with the value params gives it
AlreadySet(current, params) ==
    \A key \in DOMAIN params : key \in DOMAIN current /\ current[key] = params[key]

\* the call recorded passes only values the node registered before it has
NoOpCall(call, before) ==
    CASE call.op = "UpdateNodeAttr"    -> AlreadySet(before.attr, call.args)
      [] call.op = "UpdateNodeStatus"  -> AlreadySet(before.status, call.args)
      [] call.op = "UpdateErrorStatus" ->
            AlreadySet(before.status,
                       [key \in {NodeStatusLastError, NodeStatusRunState} |->
                           IF key = NodeStatusLastError THEN call.args[2] ELSE call.args[1]])
      [] OTHER -> call.args # NilMap /\ AlreadySet(before.attr, call.args)

C20_OnlyConfigKeysStored ==
    [][ ( /\ last'.op = "UpdateNodeConfigValues"
          /\ last'.hwID \in DOMAIN deviceMap
          /\ last'.args # NilMap )
        => LET before == deviceMap[last'.hwID]
               after  == deviceMap'[last'.hwID]
               known  == (DOMAIN last'.args) \cap (DOMAIN configHeap[before.cfgRef])
           IN  /\ DOMAIN after.attr = (DOMAIN before.attr) \cup known
               /\ \A key \in DOMAIN after.attr :
                     after.attr[key] = IF key \in known THEN last'.args[key]
                                                        ELSE before.attr[key]
               /\ configHeap' = configHeap
               /\ known = {} => /\ ~last'.changed
                                /\ UNCHANGED << deviceMap, nodeMap, updatedNodes >> ]_vars

\* a call with a key that has a Config entry and one that has none stored
\* the first and not the second
C20_Witness ==
    /\ last.op = "UpdateNodeConfigValues"
    /\ last.hwID \in DOMAIN deviceMap
    /\ last.args # NilMap
    /\ DOMAIN last.args = UpdateKeys
    /\ last.changed
    /\ "unknown" \notin DOMAIN deviceMap[last.hwID].attr
    /\ "interval" \in DOMAIN deviceMap[last.hwID].attr
    /\ deviceMap[last.hwID].attr["interval"] = last.args["interval"]

-----------------------------------------------------------------------------
(* The node registry called for nodes it has and for nodes it has not *)

NextNodeFailures ==
    \/ \E hwID \in CreatedHWIDs, nodeType \in NodeTypes : CreateNode(hwID, nodeType)
    \/ \E hwID \in HWIDs : UpdateNodeAttr(hwID, Put(EmptyMap, "a", "1"))
    \/ \E hwID \in HWIDs : UpdateNodeStatus(hwID, Put(EmptyMap, NodeStatusRunState, "ready"))
    \/ \E hwID \in HWIDs : UpdateErrorStatus(hwID, "error", "boom")
    \/ \E hwID \in HWIDs : UpdateNodeConfigValues(hwID, Put(EmptyMap, NodeAttrName, "n"))
    \/ \E hwID \in HWIDs :
          UpdateNodeConfig(hwID, "interval", NewNodeConfig("int", "polling interval", "10"))
    \/ \E hwID \in HWIDs : CreateNodeConfig(hwID, "interval", "int", "polling interval", "10")
    \/ \E hwID \in HWIDs, newNodeID \in NewNodeIDs :
          SetNodeID(GetNodeByHWID(Registry, hwID), newNodeID)
    \/ \E address \in ConfigureAddresses : GetNodeByAddressCall(address)

SpecNodeFailures == InitNodeUpdates /\ [][NextNodeFailures]_vars

-----------------------------------------------------------------------------
(* Reading configuration values: nodes are created, given configurations
   and values, and their configuration is read as a string, a boolean, an
   integer and a float *)

\* attribute names that are read: with a configuration made by
\* CreateNodeConfig, with one made by NewNode whose default is empty, with
\* one whose default is "true", and with none
GetNames == {"interval", NodeAttrName, NodeAttrPublishRaw, "unknown"}

GetOps == {"GetNodeConfigString", "GetNodeConfigBool", "GetNodeConfigInt",
           "GetNodeConfigFloat"}

InitNodeConfigGet == InitNodeUpdates

NextNodeConfigGet ==
    \/ \E hwID \in CreatedHWIDs, nodeType \in NodeTypes : CreateNode(hwID, nodeType)
    \/ \E hwID \in HWIDs : CreateNodeConfig(hwID, "interval", "int", "polling interval", "10")
    \/ \E hwID \in HWIDs, params \in UpdateMaps : UpdateNodeConfigValues(hwID, params)
    \/ \E hwID \in HWIDs, attrName \in GetNames, defaultValue \in {"dflt"} :
          GetNodeConfigString(hwID, attrName, defaultValue)
    \/ \E hwID \in HWIDs, attrName \in GetNames, defaultValue \in BOOLEAN :
          GetNodeConfigBool(hwID, attrName, defaultValue)
    \/ \E hwID \in HWIDs, attrName \in GetNames, defaultValue \in {99} :
          GetNodeConfigInt(hwID, attrName, defaultValue)
    \/ \E hwID \in HWIDs, attrName \in GetNames, defaultValue \in {99} :
          GetNodeConfigFloat(hwID, attrName, defaultValue)

SpecNodeConfigGet == InitNodeConfigGet /\ [][NextNodeConfigGet]_vars

\* C18: for a registered node with a configuration for the attribute,
\* GetNodeConfigString returns without error the node's attribute value when
\* that is present and not empty, else the configuration's default when that
\* is not empty, else the caller's default; GetNodeConfigInt returns the
\* caller's default when both are empty, 10 for the resolved string "10" (a
\* configuration default "10" without a value, whatever the caller's default,
\* 99 here) and 42 for the resolved string "42" (after UpdateNodeConfigValues
\* stored "42").  The reads change nothing, so the state a read saw is the
\* state it leaves.
C18_GetPrecedence ==
    (/\ last.op \in {"GetNodeConfigString", "GetNodeConfigInt"}
     /\ last.hwID \in DOMAIN deviceMap
     /\ last.attrName \in DOMAIN configHeap[deviceMap[last.hwID].cfgRef])
    => LET node     == deviceMap[last.hwID]
           config   == configHeap[node.cfgRef][last.attrName]
           stored   == GetStr(node.attr, last.attrName)
           resolved == IF stored # "" THEN stored ELSE config.default
       IN  /\ last.op = "GetNodeConfigString"
              => /\ last.err = ""
                 /\ last.value = IF resolved = "" THEN last.default ELSE resolved
           /\ (last.op = "GetNodeConfigInt" /\ resolved = "")
              => (last.err = "" /\ last.value = last.default)
           /\ (last.op = "GetNodeConfigInt" /\ resolved = "10")
              => (last.err = "" /\ last.value = 10)
           /\ (last.op = "GetNodeConfigInt" /\ resolved = "42")
              => (last.err = "" /\ last.value = 42)

\* the configuration default is "10", UpdateNodeConfigValues has stored "42",
\* and GetNodeConfigInt with the default 99 has returned 42
C18_Witness ==
    /\ last.op = "GetNodeConfigInt"
    /\ last.default = 99
    /\ last.hwID \in DOMAIN deviceMap
    /\ "interval" \in DOMAIN configHeap[deviceMap[last.hwID].cfgRef]
    /\ configHeap[deviceMap[last.hwID].cfgRef]["interval"].default = "10"
    /\ GetStr(deviceMap[last.hwID].attr, "interval") = "42"
    /\ last.attrName = "interval"
    /\ last.value = 42
    /\ last.err = ""

\* C19: each of the four reads leaves the registry as it was; for a hwID
\* that is not registered, and for an attribute without a configuration, it
\* returns an error and exactly the caller's default; GetNodeConfigBool and
\* GetNodeConfigInt also return an error and the caller's default when the
\* resolved string is not empty and is not a boolean, not an integer
C19_GetErrors ==
    [][ last'.op \in GetOps
        => /\ UNCHANGED << deviceMap, nodeMap, updatedNodes, configHeap >>
           /\ (\/ last'.hwID \notin DOMAIN deviceMap
               \/ last'.attrName \notin DOMAIN configHeap[deviceMap[last'.hwID].cfgRef])
              => (last'.err # "" /\ last'.value = last'.default)
           /\ (/\ last'.hwID \in DOMAIN deviceMap
               /\ last'.attrName \in DOMAIN configHeap[deviceMap[last'.hwID].cfgRef])
              => LET node     == deviceMap[last'.hwID]
                     config   == configHeap[node.cfgRef][last'.attrName]
                     stored   == GetStr(node.attr, last'.attrName)
                     resolved == IF stored # "" THEN stored ELSE config.default
                 IN  /\ (last'.op = "GetNodeConfigInt" /\ resolved \in {"abc", "true", "false"})
                        => (last'.err # "" /\ last'.value = last'.default)
                     /\ (last'.op = "GetNodeConfigBool" /\ resolved \in {"abc", "10", "42"})
                        => (last'.err # "" /\ last'.value = last'.default)
      ]_vars

\* the node's value for "interval" is "abc", and GetNodeConfigInt has
\* returned an error and the caller's default
C19_Witness ==
    /\ last.op = "GetNodeConfigInt"
    /\ last.hwID \in DOMAIN deviceMap
    /\ last.attrName = "interval"
    /\ GetStr(deviceMap[last.hwID].attr, "interval") = "abc"
    /\ last.err # ""
    /\ last.value = last.default

-----------------------------------------------------------------------------
(* The node registry under concurrent callers.  Every exported Get locks    *)
(* updateMutex for its own duration only, so a call that starts with        *)
(* GetNodeByHWID and locks afterwards is two critical sections, and the     *)
(* other threads run in between.  SetNodeID calls updateNode after it has   *)
(* unlocked: each access of updateNode to a map of the registry is then a   *)
(* step of its own, not ordered with the accesses of the other threads.     *)

\* the calls the threads make: two attribute updates of different keys, a
\* status update and a configuration value
ConcurrentUpdates ==
    { [op |-> "UpdateNodeAttr",         params |-> Put(EmptyMap, "a", "1")],
      [op |-> "UpdateNodeAttr",         params |-> Put(EmptyMap, "b", "2")],
      [op |-> "UpdateNodeStatus",       params |-> Put(EmptyMap, NodeStatusRunState, "ready")],
      [op |-> "UpdateNodeConfigValues", params |-> Put(EmptyMap, NodeAttrName, "n")] }

FatalThread == [pc |-> "fatal"]

\* the return of a call: what the caller gets, and whether the call marked a
\* node updated
Returned(t, op, hwID, params, marked, node) ==
    [op |-> op, thread |-> t, hwID |-> hwID, params |-> params, marked |-> marked,
     node |-> node]

\* a step inside a call
Stepped(t) == [op |-> "step", thread |-> t]

\* the registry as a call sees it that read its node before it locked: the
\* node it read, whatever deviceMap holds now
Holding(reg, node) ==
    [reg EXCEPT !.deviceMap = Put(reg.deviceMap, node.hwID, node)]

\* UpdateNodeAttr, UpdateNodeStatus, UpdateNodeConfigValues up to the lock:
\* node := GetNodeByHWID(nodeHWID)
updateBegin(t, nodeHWID, update) ==
    /\ thread[t].pc = "idle"
    /\ LET node == GetNodeByHWID(Registry, nodeHWID) IN
       IF node = Nil
       THEN /\ last' = Returned(t, update.op, nodeHWID, update.params, FALSE, Nil)
            /\ UNCHANGED thread
       ELSE /\ thread' = [thread EXCEPT ![t] =
                            [pc |-> "update", op |-> update.op, hwID |-> nodeHWID,
                             node |-> node, params |-> update.params]]
            /\ last' = Stepped(t)
    /\ UNCHANGED << nodeVars, senderTimestamp, subscriptions, registeredInputs,
                    busSubscriptions, pubVars >>

\* the locked part: the clone of the node that was read, changed and
\* registered
updateCommit(t) ==
    /\ thread[t].pc = "update"
    /\ LET call == thread[t]
           seen == Holding(Registry, call.node)
           r    == CASE call.op = "UpdateNodeAttr" ->
                           UpdateNodeAttrIn(seen, call.hwID, call.params)
                     [] call.op = "UpdateNodeStatus" ->
                           UpdateNodeStatusIn(seen, call.hwID, call.params)
                     [] OTHER ->
                           UpdateNodeConfigValuesIn(seen, configHeap, call.hwID, call.params)
       IN  /\ SetRegistry(IF r.changed THEN r.reg ELSE Registry)
           /\ last' = Returned(t, call.op, call.hwID, call.params, r.changed,
                               IF r.changed THEN r.reg.deviceMap[call.hwID] ELSE call.node)
    /\ thread' = [thread EXCEPT ![t] = IdleThread]
    /\ UNCHANGED << configHeap, nodeConfigureHandler, senderTimestamp, subscriptions,
                    registeredInputs, busSubscriptions, pubVars >>

\* CreateNode up to the lock: existingNode := GetNodeByHWID(hwID)
createBegin(t, hwID, nodeType) ==
    /\ thread[t].pc = "idle"
    /\ LET existingNode == GetNodeByHWID(Registry, hwID) IN
       IF existingNode # Nil
       THEN /\ last' = Returned(t, "CreateNode", hwID, EmptyMap, FALSE, existingNode)
            /\ UNCHANGED thread
       ELSE /\ thread' = [thread EXCEPT ![t] =
                            [pc |-> "create", hwID |-> hwID, nodeType |-> nodeType]]
            /\ last' = Stepped(t)
    /\ UNCHANGED << nodeVars, senderTimestamp, subscriptions, registeredInputs,
                    busSubscriptions, pubVars >>

\* the locked part: NewNode and updateNode
createCommit(t) ==
    /\ thread[t].pc = "create"
    /\ LET newNode == NewNode(Domain, PublisherID, thread[t].hwID, thread[t].nodeType,
                              thread[t].hwID)
       IN  /\ SetRegistry(updateNode(Registry, newNode))
           /\ configHeap' = Put(configHeap, thread[t].hwID, NewNodeConfigMap)
           /\ last' = Returned(t, "CreateNode", thread[t].hwID, EmptyMap, TRUE, newNode)
    /\ thread' = [thread EXCEPT ![t] = IdleThread]
    /\ UNCHANGED << nodeConfigureHandler, senderTimestamp, subscriptions,
                    registeredInputs, busSubscriptions, pubVars >>

\* SetNodeID up to its lock: the clone, and the look for a node that has
\* the new ID
setNodeIDBegin(t, hwID, newNodeID) ==
    /\ thread[t].pc = "idle"
    /\ LET node == GetNodeByHWID(Registry, hwID)
           id   == IF newNodeID = "" THEN node.hwID ELSE newNodeID
       IN  IF \/ node = Nil
              \/ /\ newNodeID # ""
                 /\ GetNodeByNodeID(Registry, newNodeID) # Nil
                 /\ newNodeID # node.hwID
           THEN /\ last' = Returned(t, "SetNodeID", hwID, EmptyMap, FALSE, Nil)
                /\ UNCHANGED thread
           ELSE /\ thread' = [thread EXCEPT ![t] =
                                [pc |-> "retire", hwID |-> hwID, node |-> node,
                                 newNode |-> [Clone(node) EXCEPT !.nodeID = id],
                                 map |-> "not read"]]
                /\ last' = Stepped(t)
    /\ UNCHANGED << nodeVars, senderTimestamp, subscriptions, registeredInputs,
                    busSubscriptions, pubVars >>

\* the locked part of SetNodeID: the old nodeID is nulled in nodeMap and in
\* the updated set; then the address of the clone is made
setNodeIDRetire(t) ==
    /\ thread[t].pc = "retire"
    /\ nodeMap' = Put(nodeMap, thread[t].node.nodeID, Nil)
    /\ updatedNodes' = Put(IF updatedNodes = NilNodes THEN EmptyMap ELSE updatedNodes,
                           << thread[t].node.nodeID >>, Nil)
    /\ thread' = [thread EXCEPT
                    ![t].pc = "nodeMap",
                    ![t].newNode.address =
                        MakeNodeDiscoveryAddress(Domain, PublisherID, thread[t].newNode.nodeID)]
    /\ last' = Stepped(t)
    /\ UNCHANGED << deviceMap, configHeap, nodeConfigureHandler, senderTimestamp,
                    subscriptions, registeredInputs, busSubscriptions, pubVars >>

\* updateNode without the lock: nodeMap[node.NodeID] = node
updateNodeNodeMap(t) ==
    /\ thread[t].pc = "nodeMap"
    /\ nodeMap' = Put(nodeMap, thread[t].newNode.nodeID, thread[t].newNode)
    /\ thread' = [thread EXCEPT ![t].pc = "deviceMap"]
    /\ last' = Stepped(t)
    /\ UNCHANGED << deviceMap, updatedNodes, configHeap, nodeConfigureHandler,
                    senderTimestamp, subscriptions, registeredInputs, busSubscriptions,
                    pubVars >>

\* deviceMap[node.HWID] = node
updateNodeDeviceMap(t) ==
    /\ thread[t].pc = "deviceMap"
    /\ deviceMap' = Put(deviceMap, thread[t].newNode.hwID, thread[t].newNode)
    /\ thread' = [thread EXCEPT ![t].pc = "check"]
    /\ last' = Stepped(t)
    /\ UNCHANGED << nodeMap, updatedNodes, configHeap, nodeConfigureHandler,
                    senderTimestamp, subscriptions, registeredInputs, busSubscriptions,
                    pubVars >>

\* if updatedNodes == nil { updatedNodes = make(...) }
updateNodeCheck(t) ==
    /\ thread[t].pc = "check"
    /\ updatedNodes' = IF updatedNodes = NilNodes THEN EmptyMap ELSE updatedNodes
    /\ thread' = [thread EXCEPT ![t].pc = "load"]
    /\ last' = Stepped(t)
    /\ UNCHANGED << deviceMap, nodeMap, configHeap, nodeConfigureHandler,
                    senderTimestamp, subscriptions, registeredInputs, busSubscriptions,
                    pubVars >>

\* updatedNodes[node.Address] = node, its read of the field updatedNodes:
\* the map the entry will be put in, nil or the map of the registry
updateNodeLoad(t) ==
    /\ thread[t].pc = "load"
    /\ thread' = [thread EXCEPT
                    ![t].pc = "assign",
                    ![t].map = IF updatedNodes = NilNodes THEN "nil" ELSE "registered"]
    /\ last' = Stepped(t)
    /\ UNCHANGED << nodeVars, senderTimestamp, subscriptions, registeredInputs,
                    busSubscriptions, pubVars >>

\* updatedNodes[node.Address] = node, its write: a panic for the nil map;
\* no effect on the registry when the map that was read is not the
\* registry's any more; SetNodeID then returns true
updateNodeAssign(t) ==
    /\ thread[t].pc = "assign"
    /\ IF thread[t].map = "nil"
       THEN /\ thread' = [u \in Threads |-> FatalThread]
            /\ last' = [op |-> "panic", thread |-> t]
            /\ UNCHANGED updatedNodes
       ELSE /\ updatedNodes' = IF thread[t].map = "registered"
                               THEN Put(updatedNodes, thread[t].newNode.address,
                                        thread[t].newNode)
                               ELSE updatedNodes
            /\ thread' = [thread EXCEPT ![t] = IdleThread]
            /\ last' = Returned(t, "SetNodeID", thread[t].hwID, EmptyMap, TRUE,
                                thread[t].newNode)
    /\ UNCHANGED << deviceMap, nodeMap, configHeap, nodeConfigureHandler,
                    senderTimestamp, subscriptions, registeredInputs, busSubscriptions,
                    pubVars >>

\* GetUpdatedNodes, all of it under the lock.  When it sets updatedNodes to
\* nil, the map a thread has read for its write is the registry's no more.
getUpdatedNodes(t, clearUpdates) ==
    /\ thread[t].pc = "idle"
    /\ updatedNodes' = IF updatedNodes # NilNodes /\ clearUpdates THEN NilNodes
                                                                  ELSE updatedNodes
    /\ thread' = [u \in Threads |->
                    IF /\ clearUpdates
                       /\ updatedNodes # NilNodes
                       /\ thread[u].pc = "assign"
                       /\ thread[u].map = "registered"
                    THEN [thread[u] EXCEPT !.map = "discarded"]
                    ELSE thread[u]]
    /\ last' = [op |-> "GetUpdatedNodes", thread |-> t, clearUpdates |-> clearUpdates,
                returned |-> GetUpdatedNodesList(Registry)]
    /\ UNCHANGED << deviceMap, nodeMap, configHeap, nodeConfigureHandler,
                    senderTimestamp, subscriptions, registeredInputs, busSubscriptions,
                    pubVars >>

\* a thread at a write of updateNode without the lock while another thread
\* is inside a call on the registry: the runtime may end the process
\* ("fatal error: concurrent map writes")
registryMapFault ==
    /\ \E t \in Threads, u \in Threads :
          /\ t # u
          /\ thread[t].pc \in {"nodeMap", "deviceMap", "assign"}
          /\ thread[u].pc \notin {"idle", "fatal"}
    /\ thread' = [t \in Threads |-> FatalThread]
    /\ last' = [op |-> "fatal error"]
    /\ UNCHANGED << nodeVars, senderTimestamp, subscriptions, registeredInputs,
                    busSubscriptions, pubVars >>

InitNodeConcurrent ==
    /\ InitNodes
    /\ nodeConfigureHandler = "nil"
    /\ InitSet
    /\ thread = [t \in Threads |-> IdleThread]
    /\ InitPub
    /\ signMessages = FALSE
    /\ last = [op |-> "none"]

NextNodeConcurrent ==
    \/ \E t \in Threads, hwID \in CreatedHWIDs, nodeType \in NodeTypes :
          createBegin(t, hwID, nodeType)
    \/ \E t \in Threads : createCommit(t)
    \/ \E t \in Threads, hwID \in CreatedHWIDs, update \in ConcurrentUpdates :
          updateBegin(t, hwID, update)
    \/ \E t \in Threads : updateCommit(t)

SpecNodeConcurrent == InitNodeConcurrent /\ [][NextNodeConcurrent]_vars

\* C22: an update of a node that changes something keeps what the updates
\* before it changed: the node registered after it has every Attr and Status
\* value of the node registered before it, but for the keys it sets itself.
C22_NoUpdateLost ==
    [][ ( /\ last'.op \in {"UpdateNodeAttr", "UpdateNodeStatus", "UpdateNodeConfigValues"}
          /\ last'.marked )
        => LET before == deviceMap[last'.hwID]
               after  == deviceMap'[last'.hwID]
               sets   == DOMAIN last'.params
           IN  /\ \A key \in DOMAIN before.attr :
                     /\ key \in DOMAIN after.attr
                     /\ (last'.op = "UpdateNodeStatus" \/ key \notin sets)
                        => after.attr[key] = before.attr[key]
               /\ \A key \in DOMAIN before.status :
                     /\ key \in DOMAIN after.status
                     /\ (last'.op # "UpdateNodeStatus" \/ key \notin sets)
                        => after.status[key] = before.status[key] ]_vars

\* C23: a CreateNode call for a hwID that is registered creates no node,
\* returns the registered node and leaves it registered as it is; only for a
\* hwID that is not registered is a node created.
C23_OneNodePerHWID ==
    [][ last'.op = "CreateNode"
        => IF last'.hwID \in DOMAIN deviceMap
           THEN /\ ~last'.marked
                /\ last'.node = deviceMap[last'.hwID]
                /\ deviceMap'[last'.hwID] = deviceMap[last'.hwID]
           ELSE /\ last'.marked
                /\ deviceMap'[last'.hwID] = last'.node ]_vars

\* the same callers with SetNodeID and with the publication loop, which
\* takes the updated nodes
HandOffUpdates == { update \in ConcurrentUpdates : "a" \in DOMAIN update.params }

NextNodeHandOff ==
    \/ \E t \in Threads, hwID \in CreatedHWIDs, nodeType \in NodeTypes :
          createBegin(t, hwID, nodeType)
    \/ \E t \in Threads : createCommit(t)
    \/ \E t \in Threads, hwID \in CreatedHWIDs, update \in HandOffUpdates :
          updateBegin(t, hwID, update)
    \/ \E t \in Threads : updateCommit(t)
    \/ \E t \in Threads, hwID \in CreatedHWIDs, newNodeID \in NewNodeIDs :
          setNodeIDBegin(t, hwID, newNodeID)
    \/ \E t \in Threads : setNodeIDRetire(t)
    \/ \E t \in Threads : updateNodeNodeMap(t)
    \/ \E t \in Threads : updateNodeDeviceMap(t)
    \/ \E t \in Threads : updateNodeCheck(t)
    \/ \E t \in Threads : updateNodeLoad(t)
    \/ \E t \in Threads : updateNodeAssign(t)
    \/ \E t \in Threads, clearUpdates \in BOOLEAN : getUpdatedNodes(t, clearUpdates)
    \/ registryMapFault

SpecNodeHandOff == InitNodeConcurrent /\ [][NextNodeHandOff]_vars

\* the keys of the updated set
Pending(updated) == IF updated = NilNodes THEN {} ELSE DOMAIN updated

\* C24: an entry leaves the updated set only in a GetUpdatedNodes(true) step
\* that returns it; when a call that marks a node updated returns, the node
\* is in the updated set under its address, at that or a later version; and
\* a GetUpdatedNodes that directly follows a GetUpdatedNodes(true) returns
\* nothing.
C24_AtomicHandOff ==
    [][ /\ \A k \in Pending(updatedNodes) :
              k \notin Pending(updatedNodes')
              => /\ last'.op = "GetUpdatedNodes"
                 /\ last'.clearUpdates
                 /\ updatedNodes[k] \in last'.returned
        /\ ( /\ last'.op \in {"CreateNode", "SetNodeID", "UpdateNodeAttr"}
             /\ last'.marked )
           => /\ last'.node.address \in Pending(updatedNodes')
              /\ updatedNodes'[last'.node.address] # Nil
              /\ updatedNodes'[last'.node.address].hwID = last'.node.hwID
        /\ ( /\ last.op = "GetUpdatedNodes" /\ last.clearUpdates
             /\ last'.op = "GetUpdatedNodes" )
           => last'.returned = {} ]_vars

-----------------------------------------------------------------------------
(* The node registry saved to a file and loaded into a new registry *)

\* the orders a range over a Go map can take: every sequence of all its keys
Orders(keys) ==
    { order \in [1..Cardinality(keys) -> keys] :
        \A i, j \in 1..Cardinality(keys) : i # j => order[i] # order[j] }

\* GetAllNodes: the values of nodeMap, its nil entries included, in the
\* order the range takes
GetAllNodes(reg, order) == [i \in 1..Len(order) |-> reg.nodeMap[order[i]]]

\* the JSON of a nil pointer
JsonNull == [null |-> "null"]

\* json.MarshalIndent of the node list: a nil node as null, a node as an
\* object with its fields and the content of its maps; the Config map is
\* written by content
MarshalIndent(collection, heap) ==
    [i \in 1..Len(collection) |->
        IF collection[i] = Nil THEN JsonNull
        ELSE [address |-> collection[i].address,
              hwID    |-> collection[i].hwID,
              nodeID  |-> collection[i].nodeID,
              attr    |-> collection[i].attr,
              config  |-> heap[collection[i].cfgRef],
              status  |-> collection[i].status]]

\* the names of the Config maps json.Unmarshal allocates, one per element
LoadedRefs == << "loaded1", "loaded2", "loaded3" >>

\* a member of a JSON object: a nil map when the object does not have it
Member(object, name) == IF name \in DOMAIN object THEN object[name] ELSE NilMap

\* json.Unmarshal into a list of node pointers: null as a nil pointer, an
\* object as a new node with new maps
Unmarshal(jsonNodes) ==
    [nodeList |-> [i \in 1..Len(jsonNodes) |->
                      IF jsonNodes[i] = JsonNull THEN Nil
                      ELSE [hwID    |-> jsonNodes[i].hwID,
                            nodeID  |-> jsonNodes[i].nodeID,
                            address |-> jsonNodes[i].address,
                            attr    |-> Member(jsonNodes[i], "attr"),
                            status  |-> Member(jsonNodes[i], "status"),
                            cfgRef  |-> LoadedRefs[i]]],
     heap     |-> [ref \in { LoadedRefs[i] : i \in { j \in 1..Len(jsonNodes) :
                                                      jsonNodes[j] # JsonNull } } |->
                      LET i == CHOOSE j \in 1..Len(jsonNodes) : LoadedRefs[j] = ref
                      IN  Member(jsonNodes[i], "config")]]

\* UpdateNodes: each node of the list that is not nil gets empty maps for
\* the maps it does not have and is registered
RECURSIVE UpdateNodesIn(_, _, _)
UpdateNodesIn(reg, heap, updates) ==
    IF updates = << >> THEN [reg |-> reg, heap |-> heap]
    ELSE
    LET node   == Head(updates)
        filled == [node EXCEPT
                      !.attr   = IF node.attr = NilMap THEN EmptyMap ELSE node.attr,
                      !.status = IF node.status = NilMap THEN EmptyMap ELSE node.status]
        config == IF heap[node.cfgRef] = NilMap THEN EmptyMap ELSE heap[node.cfgRef]
    IN  IF node = Nil
        THEN UpdateNodesIn(reg, heap, Tail(updates))
        ELSE UpdateNodesIn(updateNode(reg, filled), Put(heap, node.cfgRef, config),
                           Tail(updates))

\* NewRegisteredNodes
NewRegisteredNodes == [deviceMap |-> EmptyMap, nodeMap |-> EmptyMap, updatedNodes |-> EmptyMap]

\* LoadNodes: the file parsed and its nodes registered
LoadNodesIn(reg, heap, jsonNodes) ==
    LET parsed == Unmarshal(jsonNodes)
    IN  UpdateNodesIn(reg, [ref \in (DOMAIN heap) \cup (DOMAIN parsed.heap) |->
                               IF ref \in DOMAIN parsed.heap THEN parsed.heap[ref]
                                                             ELSE heap[ref]],
                      parsed.nodeList)

\* SaveNodes: the file written is the JSON of GetAllNodes
SaveNodes(order) ==
    /\ last' = [op   |-> "SaveNodes",
                file |-> MarshalIndent(GetAllNodes(Registry, order), configHeap)]
    /\ UNCHANGED << nodeVars, setVars, pubVars >>

\* LoadNodes of the file just saved, called on a registry NewRegisteredNodes
\* made; last holds that registry and its Config maps after the call
LoadNodes ==
    /\ last.op = "SaveNodes"
    /\ LET loaded == LoadNodesIn(NewRegisteredNodes, EmptyMap, last.file) IN
       last' = [op |-> "LoadNodes", file |-> last.file,
                reg |-> loaded.reg, heap |-> loaded.heap]
    /\ UNCHANGED << nodeVars, setVars, pubVars >>

NextNodeFiles ==
    \/ \E hwID \in HWIDs, nodeType \in NodeTypes : CreateNode(hwID, nodeType)
    \/ \E hwID \in HWIDs, newNodeID \in RenameIDs :
          SetNodeID(GetNodeByHWID(Registry, hwID), newNodeID)
    \/ \E hwID \in CreatedHWIDs : UpdateNodeAttr(hwID, Put(EmptyMap, "a", "1"))
    \/ \E hwID \in CreatedHWIDs : UpdateNodeStatus(hwID, Put(EmptyMap, NodeStatusRunState, "ready"))
    \/ \E hwID \in CreatedHWIDs :
          UpdateNodeConfig(hwID, "interval", NewNodeConfig("int", "polling interval", "10"))
    \/ \E order \in Orders(DOMAIN nodeMap) : SaveNodes(order)
    \/ LoadNodes

SpecNodeFiles == InitNodeUpdates /\ [][NextNodeFiles]_vars

\* the node a registry has for a hardware ID, by content: its nodeID, its
\* Attr and Status and the content of its Config map
NodeContent(reg, heap, hwID) ==
    LET node == GetNodeByHWID(reg, hwID)
    IN  [nodeID |-> node.nodeID, attr |-> node.attr, status |-> node.status,
         config |-> heap[node.cfgRef]]

\* C29: after SaveNodes and LoadNodes of the saved file into a new registry,
\* that registry has the hardware IDs of the saved registry's deviceMap, each
\* with the same nodeID, Attr, Config and Status.
C29_SaveLoadRoundTrip ==
    last.op = "LoadNodes" =>
        /\ DOMAIN last.reg.deviceMap = DOMAIN deviceMap
        /\ \A hwID \in DOMAIN deviceMap :
              NodeContent(last.reg, last.heap, hwID) = NodeContent(Registry, configHeap, hwID)

\* the addresses nodes are published on
NodeAddresses ==
    { MakeNodeDiscoveryAddress(Domain, PublisherID, id) : id \in RenameIDs \ {""} }

\* C33: no element of the list GetUpdatedNodes returns and no element of the
\* list GetAllNodes returns is nil, and every key of the updated set is a
\* node address.
C33_ListsHoldNodes ==
    /\ Nil \notin GetUpdatedNodesList(Registry)
    /\ \A order \in Orders(DOMAIN nodeMap) :
          \A i \in 1..Len(order) : GetAllNodes(Registry, order)[i] # Nil
    /\ updatedNodes # NilNodes => DOMAIN updatedNodes \subseteq NodeAddresses

=============================================================================
